---- MODULE Spec2Model ----
(***************************************************************************)
(* Model of the arXiv summarization plugin: the precheck -> submit -> poll *)
(* job machine of ArxivSummarizer (src/summarizer.ts).                     *)
(*                                                                         *)
(* JavaScript values are tagged records (field ty).  A string carries its  *)
(* characters and what JSON.parse makes of it: json.ok = FALSE when the    *)
(* text is not JSON, otherwise json.val is the decoded value.  URLs are    *)
(* strings whose characters are grouped into the tokens the regular        *)
(* expressions of the code look at.                                        *)
(***************************************************************************)
EXTENDS Integers, Sequences, FiniteSets, TLC

(***************************************************************************)
(* Bounds of the model.                                                    *)
(***************************************************************************)
\* largest maxAttempts passed to a direct call of pollForResult
MaxAttemptsBound == 8

(***************************************************************************)
(* Program constants.                                                      *)
(***************************************************************************)
DefaultMaxAttempts == 60
DefaultInitialInterval == 1000
IntervalCap == 10000
InitialDelay == 2000
StatusOk == 200
StatusAccepted == 202
\* requestUrl raises on a status of 400 and above unless throw: false is given
ThrowFrom == 400

(***************************************************************************)
(* JavaScript values.                                                      *)
(***************************************************************************)
Null == [ty |-> "null"]
Undefined == [ty |-> "undefined"]
Number(k) == [ty |-> "number", num |-> k]
NoJson == [ok |-> FALSE]
Json(v) == [ok |-> TRUE, val |-> v]
\* a string that is not JSON text
Plain(chars) == [ty |-> "string", chars |-> chars, json |-> NoJson]
\* the string JSON.stringify(v) produces (its characters are left opaque)
Encoded(v) == [ty |-> "string", chars |-> <<"json">>, json |-> Json(v)]
EmptyString == Plain(<< >>)
Garbage == Plain(<<"x">>)

\* JavaScript truthiness: the test of `if (v)`
Truthy(v) ==
    CASE v.ty = "string" -> Len(v.chars) > 0
      [] v.ty = "object" -> TRUE
      [] v.ty = "array" -> TRUE
      [] v.ty = "boolean" -> v.b
      [] v.ty = "number" -> v.num # 0
      [] OTHER -> FALSE

\* JSON.parse(v): [ok |-> FALSE] when it throws SyntaxError.  A non-string
\* argument is converted to a string first: null gives "null", which decodes
\* to null; undefined and objects give text that is not JSON.
JSONParse(v) ==
    CASE v.ty = "string" -> v.json
      [] v.ty = "null" -> Json(Null)
      [] OTHER -> NoJson

\* v.field: reading a property of null or undefined throws TypeError
CanRead(v) == v.ty \notin {"null", "undefined"}
Get(v, field) == IF field \in DOMAIN v THEN v[field] ELSE Undefined

(***************************************************************************)
(* normalizeArxivUrl and isValidArxivUrl (src/summarizer.ts:40-50).        *)
(***************************************************************************)
\* a slip: the scheme is left as it is
ReplaceHttpNever(u) == u

\* url.replace(/^http:/, 'https:')
ReplaceHttp(u) ==
    IF Len(u) > 0 /\ u[1] = "http:" THEN <<"https:">> \o Tail(u) ELSE u

\* url.replace(/arxiv\.org\/pdf/, 'arxiv.org/abs'): the first match only
PdfMatches(u) == {i \in 1..(Len(u) - 1) : u[i] = "arxiv.org" /\ u[i + 1] = "/pdf"}
ReplacePdfPath(u) ==
    IF PdfMatches(u) = {} THEN u
    ELSE LET i == CHOOSE j \in PdfMatches(u) : \A k \in PdfMatches(u) : j <= k
         IN [u EXCEPT ![i + 1] = "/abs"]

\* a slip: the suffix is left in place
StripPdfSuffixNever(u) == u

\* url.replace(/\.pdf$/, '')
StripPdfSuffix(u) ==
    IF Len(u) > 0 /\ u[Len(u)] = ".pdf" THEN SubSeq(u, 1, Len(u) - 1) ELSE u

normalizeArxivUrl(u) == StripPdfSuffix(ReplacePdfPath(ReplaceHttp(u)))

\* the /i flag of urlPattern
LowerCase(tok) ==
    CASE tok = "HTTPS:" -> "https:"
      [] tok = "HTTP:" -> "http:"
      [] tok = "ARXIV.ORG" -> "arxiv.org"
      [] tok = "/ABS" -> "/abs"
      [] tok = "/PDF" -> "/pdf"
      [] OTHER -> tok

\* /^https:\/\/arxiv\.org\/abs\/.+/i
isValidArxivUrl(u) ==
    /\ Len(u) >= 6
    /\ LowerCase(u[1]) = "https:"
    /\ u[2] = "//"
    /\ LowerCase(u[3]) = "arxiv.org"
    /\ LowerCase(u[4]) = "/abs"
    /\ u[5] = "/"

(***************************************************************************)
(* formatSummary (src/summarizer.ts:170-180).                              *)
(***************************************************************************)
\* s.replace(/\\n/g, '\n') and s.replace(/\\"/g, '"') on characters: "BS"
\* is the backslash, "NL" the newline, "Q" the double quote
RECURSIVE ReplaceAll(_, _, _)
ReplaceAll(s, second, by) ==
    IF Len(s) = 0 THEN << >>
    ELSE IF Len(s) >= 2 /\ s[1] = "BS" /\ s[2] = second
         THEN <<by>> \o ReplaceAll(SubSeq(s, 3, Len(s)), second, by)
         ELSE <<s[1]>> \o ReplaceAll(Tail(s), second, by)

Unescape(chars) == ReplaceAll(ReplaceAll(chars, "n", "NL"), "Q", "Q")

\* result.summary.replace(...) throws when result is null or undefined, or
\* when summary is not a string
SummaryIsString(result) ==
    /\ CanRead(result)
    /\ Get(result, "summary").ty = "string"

\* a slip: the replace is not guarded, a summary that is no string is read
\* as the empty one
DecodedSummaryUnguarded(result) ==
    IF SummaryIsString(result)
    THEN Plain(Unescape(Get(result, "summary").chars))
    ELSE EmptyString

DecodedSummary(result) ==
    IF SummaryIsString(result)
    THEN Plain(Unescape(Get(result, "summary").chars))
    ELSE Encoded(result)

formatSummary(result, url) ==
    [header |-> "## Arxiv summary",
     url |-> url,
     body |-> DecodedSummary(result),
     footer |-> "AI disclaimer"]

(***************************************************************************)
(* The backoff interval is a JavaScript number; it is kept as the exact    *)
(* fraction n/d (d a power of two), which the double represents exactly.   *)
(***************************************************************************)
RECURSIVE Reduce(_, _)
Reduce(n, d) ==
    IF d > 1 /\ n % 2 = 0 THEN Reduce(n \div 2, d \div 2) ELSE [n |-> n, d |-> d]

Whole(k) == [n |-> k, d |-> 1]
LessEq(a, b) == a.n * b.d <= b.n * a.d

\* a slip: the interval doubles
GrowDouble(i) == Reduce(2 * i.n, i.d)

\* interval * 1.5
Grow(i) == Reduce(3 * i.n, 2 * i.d)

\* a slip: the cap is applied before the multiplication
NextIntervalCapBefore(i) ==
    IF LessEq(i, Whole(IntervalCap)) THEN Grow(i) ELSE Grow(Whole(IntervalCap))

\* Math.min(interval * 1.5, 10000)   (src/summarizer.ts:164)
NextInterval(i) ==
    IF LessEq(Grow(i), Whole(IntervalCap)) THEN Grow(i) ELSE Whole(IntervalCap)

\* the whole milliseconds a timer set with setTimeout(f, i) waits
TimerDelay(i) == i.n \div i.d

(***************************************************************************)
(* What the registry may answer.  A response is what requestUrl resolves   *)
(* to; fail = TRUE is a request that never gets a response (the promise    *)
(* rejects).                                                               *)
(***************************************************************************)
Response(status, text) == [fail |-> FALSE, status |-> status, text |-> text]
TransportFailure == [fail |-> TRUE, status |-> 0, text |-> EmptyString]

\* a slip: throw: false is not honoured
RequestThrowsAnyStatus(r, throwOnStatus) ==
    r.fail \/ r.status >= ThrowFrom

\* requestUrl(...) raises instead of resolving
RequestThrows(r, throwOnStatus) ==
    r.fail \/ (throwOnStatus /\ r.status >= ThrowFrom)

Object(fields) == [ty |-> "object"] @@ fields

SummarySamples ==
    {<<"a">>, <<"a", "BS", "n", "b">>, <<"BS", "Q", "a", "BS", "Q">>, <<"BS", "BS", "n">>}

ParsedResults ==
    {Object([summary |-> Plain(s)]) : s \in SummarySamples}
        \cup {Object([title |-> Plain(<<"t">>)]), Object([summary |-> Number(3)]), Null}

\* the result field of an envelope or of a status body
EmbeddedResults ==
    {Encoded(p) : p \in ParsedResults} \cup {Garbage, EmptyString, Null}

UrlA == <<"https:", "//", "arxiv.org", "/abs", "/", "2301.00001">>
UrlAPdf == <<"http:", "//", "arxiv.org", "/pdf", "/", "2301.00001", ".pdf">>
UrlB == <<"https:", "//", "arxiv.org", "/abs", "/", "2302.00002">>
UrlOther == <<"https:", "//", "example.com", "/", "paper">>
UrlSamples == {UrlA, UrlAPdf, UrlB, UrlOther}

RequestIds == {Plain(<<"req-1">>), Plain(<<"req-2">>), Undefined}

\* bodies of POST /check
Envelopes ==
    {Object([result |-> e]) : e \in EmbeddedResults}
        \cup {Object([message |-> Plain(<<"none">>)]), Null}
CheckTexts == {Encoded(v) : v \in Envelopes} \cup {Garbage, EmptyString}
HitResult == Encoded(Object([summary |-> Plain(<<"a">>)]))
HitText == Encoded(Object([result |-> HitResult]))
CheckResponses ==
    {Response(StatusOk, t) : t \in CheckTexts}
        \cup {Response(s, t) : s \in {404, 500}, t \in {HitText, EmptyString}}
        \cup {TransportFailure}

\* bodies of POST /service
SubmitTexts ==
    {Encoded(Object([request_id |-> id])) : id \in {Plain(<<"req-1">>), Plain(<<"req-2">>)}}
        \cup {Encoded(Object([message |-> Plain(<<"none">>)])), Encoded(Null), Garbage}
SubmitResponses ==
    {Response(StatusAccepted, t) : t \in SubmitTexts}
        \cup {Response(s, Encoded(Object([request_id |-> Plain(<<"req-1">>)]))) :
                 s \in {200, 204, 400, 500}}
        \cup {TransportFailure}

\* bodies of POST /status
Completed == Plain(<<"COMPLETED">>)
Error == Plain(<<"ERROR">>)
Pending == Plain(<<"PENDING">>)
StatusBodies ==
    {Object([status |-> Completed, result |-> e, url |-> Plain(u)]) :
         e \in EmbeddedResults, u \in {UrlA, UrlB}}
        \cup {Object([status |-> Completed, result |-> e]) : e \in {HitResult, Garbage}}
        \cup {Object([status |-> Completed])}
        \cup {Object([status |-> Error, error |-> Plain(<<"boom">>)]),
              Object([status |-> Error])}
        \cup {Object([status |-> Pending]), Object([message |-> Plain(<<"none">>)]), Null}
StatusTexts == {Encoded(v) : v \in StatusBodies} \cup {Garbage, EmptyString}
PendingText == Encoded(Object([status |-> Pending]))
StatusResponses ==
    {Response(StatusOk, t) : t \in StatusTexts}
        \cup {Response(s, PendingText) : s \in {204, 404, 500}}
        \cup {TransportFailure}

\* a 200 response carrying a status other than COMPLETED and ERROR
IsPending(r) ==
    /\ ~r.fail
    /\ r.status = 200
    /\ r.text.json.ok
    /\ r.text.json.val.ty = "object"
    /\ Get(r.text.json.val, "status") \notin {Completed, Error}

\* initialInterval of a direct call of pollForResult
IntervalSamples == {0, 1, 1000, 4000, 10000, 15000}

(***************************************************************************)
(* Errors raised (the message and what is appended to it).                 *)
(***************************************************************************)
Err(msg, detail) == [msg |-> msg, detail |-> detail]
NoError == Err("none", Undefined)
NoSummary == [header |-> "none"]
NoResponse == [fail |-> FALSE, status |-> 0, text |-> EmptyString]

(***************************************************************************)
(* ArxivMetadata (src/metadata.ts): the text of the bibliographic entry.   *)
(* Characters: "SP" is a blank, "NL" a newline, anything else a word.      *)
(***************************************************************************)
True == [ty |-> "boolean", b |-> TRUE]
False == [ty |-> "boolean", b |-> FALSE]
Array(items) == [ty |-> "array", items |-> items]

IsSpace(ch) == ch \in {"SP", "NL"}

RECURSIVE TrimStart(_)
TrimStart(s) ==
    IF Len(s) > 0 /\ IsSpace(s[1]) THEN TrimStart(Tail(s)) ELSE s

RECURSIVE TrimEnd(_)
TrimEnd(s) ==
    IF Len(s) > 0 /\ IsSpace(s[Len(s)]) THEN TrimEnd(SubSeq(s, 1, Len(s) - 1)) ELSE s

\* s.trim()
Trim(s) == TrimEnd(TrimStart(s))

\* s.replace(/\n+/g, '\n')
RECURSIVE CollapseNewlines(_)
CollapseNewlines(s) ==
    IF Len(s) = 0 THEN << >>
    ELSE IF Len(s) >= 2 /\ s[1] = "NL" /\ s[2] = "NL"
         THEN CollapseNewlines(Tail(s))
         ELSE <<s[1]>> \o CollapseNewlines(Tail(s))

\* s.replace(/\s+/g, ' ')
RECURSIVE CollapseSpaces(_)
CollapseSpaces(s) ==
    IF Len(s) = 0 THEN << >>
    ELSE IF IsSpace(s[1])
         THEN IF Len(s) >= 2 /\ IsSpace(s[2])
              THEN CollapseSpaces(Tail(s))
              ELSE <<"SP">> \o CollapseSpaces(Tail(s))
         ELSE <<s[1]>> \o CollapseSpaces(Tail(s))

\* s.split(sep): the pieces between the occurrences of the character sep
RECURSIVE Split(_, _, _)
Split(s, sep, piece) ==
    IF Len(s) = 0 THEN <<piece>>
    ELSE IF s[1] = sep
         THEN <<piece>> \o Split(Tail(s), sep, << >>)
         ELSE Split(Tail(s), sep, Append(piece, s[1]))

\* pieces.join(sep)
RECURSIVE Join(_, _)
Join(pieces, sep) ==
    IF Len(pieces) = 0 THEN << >>
    ELSE IF Len(pieces) = 1 THEN pieces[1]
         ELSE pieces[1] \o sep \o Join(Tail(pieces), sep)

\* lines 90-95: trim, collapse newlines, collapse blanks, split into
\* paragraphs, trim each, join with an empty line between
Paragraphs(s) ==
    LET pieces == Split(CollapseSpaces(CollapseNewlines(Trim(s))), "NL", << >>)
    IN Join([i \in 1..Len(pieces) |-> Trim(pieces[i])], <<"NL", "NL">>)

\* el?.textContent: undefined when the element is missing
TextOf(entry, tag) == Get(entry, tag)

\* x || fallback
OrElse(x, fallback) == IF Truthy(x) THEN x ELSE fallback

\* a slip: the fallbacks for missing elements are left out
MetadataOfEntryNoFallback(entry, url) ==
    LET title == TextOf(entry, "title")
        id == TextOf(entry, "id")
        published == TextOf(entry, "published")
        summary == TextOf(entry, "summary")
        names == Get(entry, "authors")
    IN Object([
         title |-> IF title.ty = "string" THEN Plain(Trim(title.chars)) ELSE Undefined,
         paperLink |-> id,
         publishDate |-> IF published.ty = "string"
                         THEN Plain(Split(published.chars, "T", << >>)[1])
                         ELSE Undefined,
         authors |-> Plain(Join([i \in 1..Len(names) |-> <<names[i]>>], <<", ">>)),
         abstract |-> IF summary.ty = "string"
                      THEN Plain(Paragraphs(summary.chars))
                      ELSE Undefined])

\* lines 84-105: the metadata built from the entry element
MetadataOfEntry(entry, url) ==
    LET title == TextOf(entry, "title")
        id == TextOf(entry, "id")
        published == TextOf(entry, "published")
        summary == TextOf(entry, "summary")
        names == Get(entry, "authors")
    IN Object([
         title |-> OrElse(IF title.ty = "string" THEN Plain(Trim(title.chars)) ELSE Undefined,
                          Plain(<<"no title">>)),
         paperLink |-> OrElse(id, Plain(url)),
         publishDate |-> OrElse(IF published.ty = "string"
                                THEN Plain(Split(published.chars, "T", << >>)[1])
                                ELSE Undefined,
                                Plain(<<"no date">>)),
         authors |-> Plain(Join([i \in 1..Len(names) |-> <<names[i]>>], <<", ">>)),
         abstract |-> OrElse(IF summary.ty = "string"
                             THEN Plain(Paragraphs(summary.chars))
                             ELSE Undefined,
                             Plain(<<"no abstract">>))])

\* a slip: the object itself is stored, not its serialization
StringifyByReference(v) == v

\* JSON.stringify(v) of an object: properties whose value is undefined are
\* left out
Stringify(v) ==
    Encoded([f \in {g \in DOMAIN v : g = "ty" \/ v[g] # Undefined} |-> v[f]])

(***************************************************************************)
(* fetchCitationInfo and getInfluentialPapers (src/metadata.ts:121-173).   *)
(***************************************************************************)
CopiedFields ==
    {"paperId", "title", "url", "venue", "year", "abstract", "arxivId", "doi",
     "isInfluential", "citationCount", "influentialCitationCount",
     "referenceCount", "fieldsOfStudy", "s2FieldsOfStudy", "publicationTypes",
     "publicationDate", "journal", "intent"}

\* lines 152-172: the record made of one paper
InfluentialPaper(paper) ==
    [f \in CopiedFields |-> Get(paper, f)]
        @@ [ty |-> "object",
            authors |-> Plain(Join([i \in 1..Len(paper.authors.items) |->
                                       <<Get(paper.authors.items[i], "name").chars>>],
                                   <<", ">>))]

\* paper.authors.map(author => author.name).join(', ') does not throw
AuthorsJoin(paper) ==
    /\ Get(paper, "authors").ty = "array"
    /\ \A i \in 1..Len(paper.authors.items) : CanRead(paper.authors.items[i])

Flagged(paper) == Truthy(Get(paper, "isInfluential"))

\* lines 149-173: ok = FALSE when filter or map throws TypeError
getInfluentialPapers(papers) ==
    IF papers.ty # "array" THEN [ok |-> FALSE]
    ELSE IF \E i \in 1..Len(papers.items) : ~CanRead(papers.items[i])
    THEN [ok |-> FALSE]
    ELSE LET kept == SelectSeq(papers.items, Flagged)
         IN IF \E i \in 1..Len(kept) : ~AuthorsJoin(kept[i])
            THEN [ok |-> FALSE]
            ELSE [ok |-> TRUE,
                  val |-> [i \in 1..Len(kept) |-> InfluentialPaper(kept[i])]]

\* line 146
NoCitationInfo ==
    [numCitedBy |-> Number(0), numCiting |-> Number(0),
     influentialCitations |-> << >>, influentialReferences |-> << >>]

\* lines 126-141: the body of the try
CitationAttempt(r) ==
    IF RequestThrows(r, TRUE) THEN [kind |-> "throw"]
    ELSE IF r.status # StatusOk THEN [kind |-> "return", info |-> NoCitationInfo]
    ELSE IF ~JSONParse(r.text).ok THEN [kind |-> "throw"]
    ELSE IF ~CanRead(JSONParse(r.text).val) THEN [kind |-> "throw"]
    ELSE LET data == JSONParse(r.text).val
             citations == getInfluentialPapers(Get(data, "citations"))
             references == getInfluentialPapers(Get(data, "references"))
         IN IF ~citations.ok \/ ~references.ok THEN [kind |-> "throw"]
            ELSE [kind |-> "return",
                  info |-> [numCitedBy |-> OrElse(Get(data, "numCitedBy"), Number(0)),
                            numCiting |-> OrElse(Get(data, "numCiting"), Number(0)),
                            influentialCitations |-> citations.val,
                            influentialReferences |-> references.val]]

\* a slip: fetchCitationInfo without its try/catch
CitationOutcomeUncaught(r) == CitationAttempt(r)

\* lines 125-146: what fetchCitationInfo makes of the registry's response;
\* every error raised inside the try is caught at line 142
CitationOutcome(r) ==
    IF CitationAttempt(r).kind = "throw"
    THEN [kind |-> "return", info |-> NoCitationInfo]
    ELSE CitationAttempt(r)

(***************************************************************************)
(* What the two registries may answer, and the calls that are made.        *)
(***************************************************************************)
\* largest number of fetchArxivMetadata calls in a run
MaxCalls == 3

\* the calls that may be in progress at the same time
Calls == {"first", "second"}

ArxivIds == {"2301.00001", "2302.00002"}
UrlOldStyle == <<"https:", "//", "arxiv.org", "/abs", "/", "hep-th/9901001">>
UrlAv2 == <<"https:", "//", "arxiv.org", "/abs", "/", "2301.00001v2">>
MetadataUrls == {UrlA, UrlAPdf, UrlAv2, UrlB, UrlOldStyle}

\* the text of an XML document and its first entry element (null if none)
Xml(entry) ==
    [ty |-> "string", chars |-> <<"xml">>, json |-> NoJson, entry |-> entry]
EntryFull ==
    Object([title |-> Plain(<<"SP", "Example", "SP", "Paper", "NL">>),
            id |-> Plain(<<"http://arxiv.org/abs/2301.00001v1">>),
            published |-> Plain(<<"2023-01-01", "T", "00:00:00Z">>),
            authors |-> <<"Ann", "Bob">>,
            summary |-> Plain(<<"NL", "a", "SP", "SP", "b", "NL", "NL", "c", "SP">>)])
EntrySparse == Object([authors |-> << >>])
BibResponses ==
    {Response(StatusOk, Xml(e)) : e \in {EntryFull, EntrySparse, Null}}
        \cup {Response(204, Xml(EntryFull)), TransportFailure}

Author(name) == Object([name |-> Plain(<<name>>)])
Paper(id, flag) ==
    Object([paperId |-> Plain(<<id>>), title |-> Plain(<<"title of ", id>>),
            isInfluential |-> flag, authors |-> Array(<<Author("Ann"), Author("Bob")>>),
            citationCount |-> Number(7)])
PaperWithoutAuthors(id, flag) ==
    Object([paperId |-> Plain(<<id>>), isInfluential |-> flag])
FiveCitations ==
    Array(<<Paper("c1", False), Paper("c2", True), Paper("c3", False),
            Paper("c4", True), PaperWithoutAuthors("c5", False)>>)
CitationBodies ==
    {Object([numCitedBy |-> Number(5), numCiting |-> Number(3),
             citations |-> FiveCitations, references |-> Array(<<Paper("r1", True)>>)]),
     Object([citations |-> Array(<< >>), references |-> Array(<< >>)]),
     Object([numCitedBy |-> Number(5), numCiting |-> Number(3),
             citations |-> Array(<<Paper("c2", True)>>)]),
     Object([numCitedBy |-> Number(5), numCiting |-> Number(3),
             citations |-> Array(<<PaperWithoutAuthors("c2", True)>>),
             references |-> Array(<< >>)])}
CitationResponses ==
    {Response(StatusOk, Encoded(b)) : b \in CitationBodies}
        \cup {Response(StatusOk, Garbage)}
        \cup {Response(s, Encoded(Object([numCitedBy |-> Number(5),
                                          numCiting |-> Number(3),
                                          citations |-> Array(<< >>),
                                          references |-> Array(<< >>)]))) :
                 s \in {204, 500}}
        \cup {TransportFailure}

NoMetadata == Object([none |-> True])

(***************************************************************************)
(* State.                                                                  *)
(***************************************************************************)
VARIABLES
    entry,             \* the method that was called: summarizeArxiv or pollForResult
    pc,                \* where the call stands
    mstate,            \* the state of the job machine
    url,               \* summarizeArxiv: url after normalizeArxivUrl
    preCheckResponse,  \* summarizeArxiv: the response to /check
    submitResponse,    \* summarizeArxiv: the response to /service
    requestId,         \* pollForResult: requestId
    maxAttempts,       \* pollForResult: maxAttempts
    initialInterval,   \* pollForResult: initialInterval
    attempt,           \* pollForResult: attempt
    interval,          \* pollForResult: interval
    response,          \* pollForResult: the response to the last /status
    outstanding,       \* the request that awaits its response
    sentRequestId,     \* the requestId in the body of the last /status request
    timer,             \* the delay of the pending setTimeout, if any
    returned,          \* the value the call returned
    error,             \* the error the call raised
    nCheck,            \* number of /check requests issued
    nService,          \* number of /service requests issued
    nStatus,           \* number of /status requests issued
    nDelay,            \* number of times the initial delay was started
    sleeps,            \* the delays of the sleeps between attempts, in order
    onlyPending,       \* every /status response so far let the loop continue
    metadataCache,     \* ArxivMetadata.metadataCache: identifier -> JSON text
    fetch,             \* the locals of each fetchArxivMetadata call
    nCalls,            \* number of fetchArxivMetadata calls made
    firstResult,       \* identifier -> what the first successful fetch returned
    lastResult,        \* identifier -> what the last fetch that wrote the cache returned
    lastWriter,        \* identifier -> the call that wrote the cache last
    urlIn,             \* the text given to normalizeArxivUrl
    urlOnce,           \* normalizeArxivUrl(urlIn)
    urlTwice,          \* normalizeArxivUrl(normalizeArxivUrl(urlIn))
    urlStep,           \* how many times normalizeArxivUrl was applied
    host,              \* a clipboard command: its locals, the active file, the
                       \* files created, the notices shown, the loading indicator
    retry,             \* the locals of a fetchArxivData call
    ops,               \* concurrent summarizeFromClipboard operations: their positions
    dom,               \* the loading-indicator elements attached to document.body
                       \* and the field this.loadingIndicator
    note               \* the content of the file the operations append to

vars ==
    <<entry, pc, mstate, url, preCheckResponse, submitResponse, requestId,
      maxAttempts, initialInterval, attempt, interval, response, outstanding,
      sentRequestId, timer, returned, error, nCheck, nService, nStatus, nDelay,
      sleeps, onlyPending>>

metadataVars == <<metadataCache, fetch, nCalls, firstResult, lastResult, lastWriter>>
urlVars == <<urlIn, urlOnce, urlTwice, urlStep>>
searchVars == <<retry>>
concurrentVars == <<ops, dom, note>>
allVars == <<vars, metadataVars, urlVars, host, searchVars, concurrentVars>>

pollArgs == <<requestId, maxAttempts, initialInterval>>
pollLocals == <<attempt, interval, response, sentRequestId, sleeps, onlyPending>>
summarizeLocals == <<url, preCheckResponse, submitResponse>>
counters == <<nCheck, nService, nStatus, nDelay>>

\* a call that has not been made
NoInfo == [unset |-> TRUE]
NoCall ==
    [pc |-> "idle", url |-> << >>, arxivId |-> "", cachedMetadata |-> Undefined,
     response |-> NoResponse, metadata |-> NoMetadata,
     citationResponse |-> NoResponse, citationInfo |-> NoInfo,
     returned |-> NoMetadata, error |-> NoError, nBib |-> 0, nCit |-> 0,
     wrote |-> Undefined, expected |-> NoMetadata, afterSuccess |-> FALSE,
     overlapped |-> FALSE]

MetadataInit ==
    /\ metadataCache = [id \in ArxivIds |-> Undefined]
    /\ fetch = [c \in Calls |-> NoCall]
    /\ nCalls = 0
    /\ firstResult = [id \in ArxivIds |-> NoMetadata]
    /\ lastResult = [id \in ArxivIds |-> NoMetadata]
    /\ lastWriter = [id \in ArxivIds |-> "none"]

UrlIdle ==
    /\ urlIn = << >>
    /\ urlOnce = << >>
    /\ urlTwice = << >>
    /\ urlStep = 0

SummarizerInit ==
    /\ entry = "none"
    /\ pc = "idle"
    /\ mstate = "IDLE"
    /\ url = << >>
    /\ preCheckResponse = NoResponse
    /\ submitResponse = NoResponse
    /\ requestId = Undefined
    /\ maxAttempts = 0
    /\ initialInterval = Whole(0)
    /\ attempt = 0
    /\ interval = Whole(0)
    /\ response = NoResponse
    /\ outstanding = "none"
    /\ sentRequestId = Undefined
    /\ timer = << >>
    /\ returned = NoSummary
    /\ error = NoError
    /\ nCheck = 0
    /\ nService = 0
    /\ nStatus = 0
    /\ nDelay = 0
    /\ sleeps = << >>
    /\ onlyPending = TRUE

\* no command has run: nothing written, created or shown
NoCommand ==
    [pc |-> "idle", command |-> "none", url |-> << >>, activeFile |-> FALSE,
     written |-> << >>, frontmatter |-> [none |-> TRUE], fileName |-> <<"untitled">>,
     created |-> << >>,
     notices |-> << >>, loadingIndicator |-> FALSE,
     metaedit |-> "unknown", io |-> "none"]

HostIdle == host = NoCommand

\* no fetchArxivData call yet
NoRetry ==
    [pc |-> "idle", maxRetries |-> 0, attempt |-> 0, response |-> NoResponse,
     nRequests |-> 0, nFailed |-> 0, delays |-> << >>, timer |-> << >>,
     returned |-> Undefined, error |-> NoError]
SearchIdle == retry = NoRetry

OpIds == {"op1", "op2", "op3"}
ConcurrentIdle ==
    /\ ops = [o \in OpIds |-> [pc |-> "idle", summary |-> << >>, content |-> << >>]]
    /\ dom = [elements |-> 0, loadingIndicator |-> FALSE]
    /\ note = <<"original">>

Init == SummarizerInit /\ MetadataInit /\ UrlIdle /\ HostIdle /\ SearchIdle /\ ConcurrentIdle

(***************************************************************************)
(* How a call ends.                                                        *)
(***************************************************************************)
\* throw: the call is rejected with e
Throw(state, e) ==
    /\ pc' = "done"
    /\ mstate' = state
    /\ error' = e
    /\ returned' = NoSummary
    /\ outstanding' = "none"
    /\ timer' = << >>

\* return summary
Return(state, summary) ==
    /\ pc' = "done"
    /\ mstate' = state
    /\ returned' = summary
    /\ error' = NoError
    /\ outstanding' = "none"
    /\ timer' = << >>

(***************************************************************************)
(* summarizeArxiv (src/summarizer.ts:52-127).                              *)
(***************************************************************************)
\* lines 53-73: normalize, validate, POST /check
SummarizeArxiv(u) ==
    /\ pc = "idle"
    /\ UNCHANGED <<metadataVars, urlVars, searchVars, concurrentVars>>
    /\ host' = IF host.pc = "read" THEN [host EXCEPT !.pc = "summarizing"] ELSE host
    /\ entry' = "summarizeArxiv"
    /\ url' = normalizeArxivUrl(u)
    /\ IF ~isValidArxivUrl(url')
       THEN /\ Throw("INVALID", Err("InvalidUrl", Undefined))
            /\ UNCHANGED nCheck
       ELSE /\ pc' = "await_check"
            /\ mstate' = "PRECHECK"
            /\ outstanding' = "check"
            /\ nCheck' = nCheck + 1
            /\ UNCHANGED <<timer, returned, error>>
    /\ UNCHANGED <<preCheckResponse, submitResponse, pollArgs, pollLocals,
                   nService, nStatus, nDelay>>

\* a slip: the envelope is read at the wrong field
PrecheckHitWrongField(r) ==
    /\ r.status = StatusOk
    /\ Truthy(r.text)
    /\ JSONParse(r.text).ok
    /\ CanRead(JSONParse(r.text).val)
    /\ Truthy(Get(JSONParse(r.text).val, "summary"))
    /\ JSONParse(Get(JSONParse(r.text).val, "summary")).ok

\* a slip: the status of the response is not looked at
PrecheckHitAnyStatus(r) ==
    /\ Truthy(r.text)
    /\ JSONParse(r.text).ok
    /\ CanRead(JSONParse(r.text).val)
    /\ Truthy(Get(JSONParse(r.text).val, "result"))
    /\ JSONParse(Get(JSONParse(r.text).val, "result")).ok

\* lines 77-89: the precheck found a stored result
PrecheckHit(r) ==
    /\ r.status = StatusOk
    /\ Truthy(r.text)
    /\ JSONParse(r.text).ok
    /\ CanRead(JSONParse(r.text).val)
    /\ Truthy(Get(JSONParse(r.text).val, "result"))
    /\ JSONParse(Get(JSONParse(r.text).val, "result")).ok

\* line 83: parsedResult
PrecheckParsedResult(r) == JSONParse(Get(JSONParse(r.text).val, "result")).val

\* lines 75-108: the response to /check arrives; on a miss POST /service
PrecheckResponse(r) ==
    /\ pc = "await_check"
    /\ UNCHANGED <<metadataVars, urlVars, searchVars, concurrentVars, host>>
    /\ preCheckResponse' = r
    /\ IF RequestThrows(r, FALSE)
       THEN /\ Throw("FAILED", Err("RequestFailed", Undefined))
            /\ UNCHANGED nService
       ELSE IF PrecheckHit(r)
       THEN /\ Return("CACHED_HIT", formatSummary(PrecheckParsedResult(r), Plain(url)))
            /\ UNCHANGED nService
       ELSE /\ pc' = "await_submit"
            /\ mstate' = "SUBMIT"
            /\ outstanding' = "service"
            /\ nService' = nService + 1
            /\ UNCHANGED <<timer, returned, error>>
    /\ UNCHANGED <<entry, url, submitResponse, pollArgs, pollLocals, nCheck,
                   nStatus, nDelay>>

\* a slip: a body that does not decode is accepted without an identifier
SubmitAcceptedAnyBody(r) ==
    IF JSONParse(r.text).ok /\ CanRead(JSONParse(r.text).val)
    THEN [kind |-> "accepted", requestId |-> Get(JSONParse(r.text).val, "request_id")]
    ELSE [kind |-> "accepted", requestId |-> Undefined]

\* lines 117-118: decode the body and read request_id
SubmitAccepted(r) ==
    IF ~JSONParse(r.text).ok
    THEN [kind |-> "throw", error |-> Err("SyntaxError", Undefined)]
    ELSE IF ~CanRead(JSONParse(r.text).val)
    THEN [kind |-> "throw", error |-> Err("TypeError", Undefined)]
    ELSE [kind |-> "accepted", requestId |-> Get(JSONParse(r.text).val, "request_id")]

\* a slip: every status below 300 counts as accepted
SubmitOutcomeAny2xx(r) ==
    IF RequestThrows(r, TRUE)
    THEN [kind |-> "throw", error |-> Err("RequestFailed", Undefined)]
    ELSE IF r.status >= 300
    THEN [kind |-> "throw", error |-> Err("SubmitFailed", Number(r.status))]
    ELSE SubmitAccepted(r)

\* lines 110-118: what summarizeArxiv makes of the response to /service
SubmitOutcome(r) ==
    IF RequestThrows(r, TRUE)
    THEN [kind |-> "throw", error |-> Err("RequestFailed", Undefined)]
    ELSE IF r.status # StatusAccepted
    THEN [kind |-> "throw", error |-> Err("SubmitFailed", Number(r.status))]
    ELSE SubmitAccepted(r)

\* lines 110-120: the response to /service arrives; on 202 start the initial delay
SubmitResponse(r) ==
    /\ pc = "await_submit"
    /\ UNCHANGED <<metadataVars, urlVars, searchVars, concurrentVars, host>>
    /\ submitResponse' = r
    /\ IF SubmitOutcome(r).kind = "throw"
       THEN /\ Throw("FAILED", SubmitOutcome(r).error)
            /\ UNCHANGED <<requestId, nDelay>>
       ELSE /\ requestId' = SubmitOutcome(r).requestId
            /\ pc' = "initial_delay"
            /\ mstate' = "ACCEPTED"
            /\ outstanding' = "none"
            /\ timer' = <<Whole(InitialDelay)>>
            /\ nDelay' = nDelay + 1
            /\ UNCHANGED <<returned, error>>
    /\ UNCHANGED <<entry, url, preCheckResponse, maxAttempts, initialInterval,
                   pollLocals, nCheck, nService, nStatus>>

(***************************************************************************)
(* pollForResult (src/summarizer.ts:129-168).                              *)
(***************************************************************************)
\* a slip: the loop test is attempt <= maxAttempts
LoopHeadInclusive(att, max, rid) ==
    IF att <= max
    THEN /\ pc' = "await_status"
         /\ mstate' = "POLLING"
         /\ outstanding' = "status"
         /\ sentRequestId' = rid
         /\ nStatus' = nStatus + 1
         /\ timer' = << >>
         /\ UNCHANGED <<returned, error>>
    ELSE /\ pc' = "done"
         /\ mstate' = "TIMEOUT"
         /\ error' = Err("Timeout", Undefined)
         /\ returned' = NoSummary
         /\ outstanding' = "none"
         /\ timer' = << >>
         /\ UNCHANGED <<sentRequestId, nStatus>>

\* lines 131-142 and 167: the loop test; POST /status or give up
LoopHead(att, max, rid) ==
    IF att < max
    THEN /\ pc' = "await_status"
         /\ mstate' = "POLLING"
         /\ outstanding' = "status"
         /\ sentRequestId' = rid
         /\ nStatus' = nStatus + 1
         /\ timer' = << >>
         /\ UNCHANGED <<returned, error>>
    ELSE /\ Throw("TIMEOUT", Err("Timeout", Undefined))
         /\ UNCHANGED <<sentRequestId, nStatus>>

\* line 122: the initial delay is over, pollForResult(requestId) is called
\* with the default maxAttempts and initialInterval
InitialDelayFires ==
    /\ pc = "initial_delay"
    /\ UNCHANGED <<metadataVars, urlVars, searchVars, concurrentVars, host>>
    /\ maxAttempts' = DefaultMaxAttempts
    /\ initialInterval' = Whole(DefaultInitialInterval)
    /\ interval' = initialInterval'
    /\ attempt' = 0
    /\ LoopHead(attempt', maxAttempts', requestId)
    /\ UNCHANGED <<entry, summarizeLocals, requestId, response, sleeps,
                   onlyPending, nCheck, nService, nDelay>>

\* a direct call pollForResult(rid, max, init)
PollForResult(rid, max, init) ==
    /\ pc = "idle"
    /\ UNCHANGED <<metadataVars, urlVars, searchVars, concurrentVars, host>>
    /\ entry' = "pollForResult"
    /\ requestId' = rid
    /\ maxAttempts' = max
    /\ initialInterval' = Whole(init)
    /\ interval' = initialInterval'
    /\ attempt' = 0
    /\ LoopHead(attempt', maxAttempts', requestId')
    /\ UNCHANGED <<summarizeLocals, response, sleeps, onlyPending, nCheck,
                   nService, nDelay>>

\* a slip: every status other than COMPLETED is taken for a failure
StatusBranchStrict(result) ==
    IF Get(result, "status") = Completed
    THEN IF JSONParse(Get(result, "result")).ok
         THEN [kind |-> "return",
               summary |-> formatSummary(JSONParse(Get(result, "result")).val,
                                         Get(result, "url"))]
         ELSE [kind |-> "throw", error |-> Err("SyntaxError", Undefined)]
    ELSE [kind |-> "throw", error |-> Err("UpstreamError", Get(result, "error"))]

\* a slip: status ERROR is not looked at
StatusBranchIgnoresError(result) ==
    IF Get(result, "status") = Completed
    THEN IF JSONParse(Get(result, "result")).ok
         THEN [kind |-> "return",
               summary |-> formatSummary(JSONParse(Get(result, "result")).val,
                                         Get(result, "url"))]
         ELSE [kind |-> "throw", error |-> Err("SyntaxError", Undefined)]
    ELSE [kind |-> "continue"]

\* lines 148-153: the decoded body is COMPLETED, ERROR or anything else
StatusBranch(result) ==
    IF Get(result, "status") = Completed
    THEN IF JSONParse(Get(result, "result")).ok
         THEN [kind |-> "return",
               summary |-> formatSummary(JSONParse(Get(result, "result")).val,
                                         Get(result, "url"))]
         ELSE [kind |-> "throw", error |-> Err("SyntaxError", Undefined)]
    ELSE IF Get(result, "status") = Error
    THEN [kind |-> "throw", error |-> Err("UpstreamError", Get(result, "error"))]
    ELSE [kind |-> "continue"]

\* a slip: a response that is not 200, or does not decode, is polled again
PollOutcomeRetriesBadResponse(r) ==
    IF RequestThrows(r, TRUE)
    THEN [kind |-> "throw", error |-> Err("RequestFailed", Undefined)]
    ELSE IF r.status # StatusOk
    THEN [kind |-> "continue"]
    ELSE IF ~JSONParse(r.text).ok
    THEN [kind |-> "continue"]
    ELSE IF ~CanRead(JSONParse(r.text).val)
    THEN [kind |-> "throw", error |-> Err("TypeError", Undefined)]
    ELSE StatusBranch(JSONParse(r.text).val)

\* lines 144-161: what one attempt makes of the response to /status
PollOutcome(r) ==
    IF RequestThrows(r, TRUE)
    THEN [kind |-> "throw", error |-> Err("RequestFailed", Undefined)]
    ELSE IF r.status # StatusOk
    THEN [kind |-> "throw", error |-> Err("UnexpectedStatus", Number(r.status))]
    ELSE IF ~JSONParse(r.text).ok
    THEN [kind |-> "throw", error |-> Err("SyntaxError", Undefined)]
    ELSE IF ~CanRead(JSONParse(r.text).val)
    THEN [kind |-> "throw", error |-> Err("TypeError", Undefined)]
    ELSE StatusBranch(JSONParse(r.text).val)

\* a slip: no sleep after the last attempt, the timeout is raised at once
StatusResponseSkipsLastSleep(r) ==
    /\ pc = "await_status"
    /\ UNCHANGED <<metadataVars, urlVars, searchVars, concurrentVars, host>>
    /\ response' = r
    /\ onlyPending' = (onlyPending /\ IsPending(r))
    /\ CASE PollOutcome(r).kind = "return" ->
              /\ Return("COMPLETED", PollOutcome(r).summary)
              /\ UNCHANGED sleeps
         [] PollOutcome(r).kind = "throw" ->
              /\ Throw("ERROR", PollOutcome(r).error)
              /\ UNCHANGED sleeps
         [] PollOutcome(r).kind = "continue" /\ attempt + 1 >= maxAttempts ->
              /\ Throw("TIMEOUT", Err("Timeout", Undefined))
              /\ UNCHANGED sleeps
         [] OTHER ->
              /\ pc' = "sleeping"
              /\ outstanding' = "none"
              /\ timer' = <<interval>>
              /\ sleeps' = Append(sleeps, interval)
              /\ UNCHANGED <<mstate, returned, error>>
    /\ UNCHANGED <<entry, summarizeLocals, pollArgs, attempt, interval,
                   sentRequestId, counters>>

\* lines 144-163: the response to /status arrives; return, raise or sleep
StatusResponse(r) ==
    /\ pc = "await_status"
    /\ UNCHANGED <<metadataVars, urlVars, searchVars, concurrentVars, host>>
    /\ response' = r
    /\ onlyPending' = (onlyPending /\ IsPending(r))
    /\ CASE PollOutcome(r).kind = "return" ->
              /\ Return("COMPLETED", PollOutcome(r).summary)
              /\ UNCHANGED sleeps
         [] PollOutcome(r).kind = "throw" ->
              /\ Throw("ERROR", PollOutcome(r).error)
              /\ UNCHANGED sleeps
         [] OTHER ->
              /\ pc' = "sleeping"
              /\ outstanding' = "none"
              /\ timer' = <<interval>>
              /\ sleeps' = Append(sleeps, interval)
              /\ UNCHANGED <<mstate, returned, error>>
    /\ UNCHANGED <<entry, summarizeLocals, pollArgs, attempt, interval,
                   sentRequestId, counters>>

\* lines 163-165 and 131: the sleep is over; back off and test the loop again
SleepFires ==
    /\ pc = "sleeping"
    /\ UNCHANGED <<metadataVars, urlVars, searchVars, concurrentVars, host>>
    /\ interval' = NextInterval(interval)
    /\ attempt' = attempt + 1
    /\ LoopHead(attempt', maxAttempts, requestId)
    /\ UNCHANGED <<entry, summarizeLocals, pollArgs, response, sleeps,
                   onlyPending, nCheck, nService, nDelay>>

Next ==
    \/ \E u \in UrlSamples : SummarizeArxiv(u)
    \/ \E r \in CheckResponses : PrecheckResponse(r)
    \/ \E r \in SubmitResponses : SubmitResponse(r)
    \/ InitialDelayFires
    \/ \E rid \in RequestIds, max \in 0..MaxAttemptsBound, init \in IntervalSamples :
           PollForResult(rid, max, init)
    \/ \E r \in StatusResponses : StatusResponse(r)
    \/ SleepFires

Spec == Init /\ [][Next]_allVars

\* requestUrl settles (lines 66, 96, 133) and setTimeout fires (lines 120, 163)
Progress ==
    \/ \E r \in CheckResponses : PrecheckResponse(r)
    \/ \E r \in SubmitResponses : SubmitResponse(r)
    \/ InitialDelayFires
    \/ \E r \in StatusResponses : StatusResponse(r)
    \/ SleepFires

\* every request is answered or fails, and every timer fires
FairSpec == Spec /\ WF_allVars(Progress)

(***************************************************************************)
(* fetchArxivMetadata (src/metadata.ts:50-119).  Calls may overlap: each    *)
(* await hands control to the other call.                                   *)
(***************************************************************************)
\* the (\d+\.\d+) at the start of the text after /abs/; "" when there is none
IdDigits(tok) ==
    CASE tok = "2301.00001" -> "2301.00001"
      [] tok = "2301.00001v2" -> "2301.00001"
      [] tok = "2302.00002" -> "2302.00002"
      [] OTHER -> ""

\* url.match(/arxiv\.org\/abs\/(\d+\.\d+)/): "" stands for null
IdMatches(u) ==
    {i \in 1..(Len(u) - 3) : /\ u[i] = "arxiv.org"
                             /\ u[i + 1] = "/abs"
                             /\ u[i + 2] = "/"
                             /\ IdDigits(u[i + 3]) # ""}
extractArxivId(u) ==
    IF IdMatches(u) = {} THEN ""
    ELSE LET i == CHOOSE j \in IdMatches(u) : \A k \in IdMatches(u) : j <= k
         IN IdDigits(u[i + 3])

\* this.metadataCache.get(id)
CacheGet(cache, id) == cache[id]

\* a slip: an entry that is there is not overwritten
CacheSetKeepsFirst(cache, id, text) ==
    IF cache[id] = Undefined THEN [cache EXCEPT ![id] = text] ELSE cache

\* this.metadataCache.set(id, text)
CacheSet(cache, id, text) == [cache EXCEPT ![id] = text]

\* a slip: the counts are not copied
WithCitationForgets(metadata, citationInfo) == metadata

\* lines 109-110: only the two counts are copied from citationInfo
WithCitation(metadata, citationInfo) ==
    [numCitedBy |-> citationInfo.numCitedBy,
     numCiting |-> citationInfo.numCiting] @@ metadata

\* the other calls that are between their request and their cache write
InFlight(c, id) ==
    {d \in Calls \ {c} : /\ fetch[d].pc \in {"await_bib", "await_cit"}
                         /\ fetch[d].arxivId = id}

\* a slip: the cache is not consulted
CachedNever(cache, id) == Undefined

\* lines 57-58
Cached(cache, id) == IF id = "" THEN Undefined ELSE CacheGet(cache, id)

\* a slip: the identifier is not tested before the request is made
FetchArxivMetadataUnchecked(c, u) ==
    /\ fetch[c].pc \in {"idle", "done"}
    /\ nCalls < MaxCalls
    /\ UNCHANGED <<vars, urlVars, searchVars, concurrentVars>>
    /\ host' = IF host.pc = "read" THEN [host EXCEPT !.pc = "fetching"] ELSE host
    /\ nCalls' = nCalls + 1
    /\ LET n == normalizeArxivUrl(u)
           id == extractArxivId(n)
           cached == Cached(metadataCache, id)
           start == [NoCall EXCEPT
                       !.url = n, !.arxivId = id, !.cachedMetadata = cached,
                       !.afterSuccess = (id # "" /\ firstResult[id] # NoMetadata),
                       !.expected = IF id = "" THEN NoMetadata ELSE lastResult[id]]
       IN IF Truthy(cached)
          THEN fetch' = [fetch EXCEPT ![c] =
                   IF JSONParse(cached).ok
                   THEN [start EXCEPT !.pc = "done", !.returned = JSONParse(cached).val]
                   ELSE [start EXCEPT !.pc = "done",
                                      !.error = Err("SyntaxError", Undefined)]]
          ELSE fetch' = [d \in Calls |->
                   IF d = c
                   THEN [start EXCEPT !.pc = "await_bib", !.nBib = 1,
                                      !.overlapped = (InFlight(c, id) # {})]
                   ELSE IF d \in InFlight(c, id)
                   THEN [fetch[d] EXCEPT !.overlapped = TRUE]
                   ELSE fetch[d]]
    /\ UNCHANGED <<metadataCache, firstResult, lastResult, lastWriter>>

\* lines 50-70: normalize, extract the identifier, answer from the cache or
\* GET the bibliographic record
FetchArxivMetadata(c, u) ==
    /\ fetch[c].pc \in {"idle", "done"}
    /\ nCalls < MaxCalls
    /\ UNCHANGED <<vars, urlVars, searchVars, concurrentVars>>
    /\ host' = IF host.pc = "read" THEN [host EXCEPT !.pc = "fetching"] ELSE host
    /\ nCalls' = nCalls + 1
    /\ LET n == normalizeArxivUrl(u)
           id == extractArxivId(n)
           cached == Cached(metadataCache, id)
           start == [NoCall EXCEPT
                       !.url = n, !.arxivId = id, !.cachedMetadata = cached,
                       !.afterSuccess = (id # "" /\ firstResult[id] # NoMetadata),
                       !.expected = IF id = "" THEN NoMetadata ELSE lastResult[id]]
       IN IF id = ""
          THEN fetch' = [fetch EXCEPT ![c] =
                   [start EXCEPT !.pc = "done", !.error = Err("InvalidUrl", Undefined)]]
          ELSE IF Truthy(cached)
          THEN fetch' = [fetch EXCEPT ![c] =
                   IF JSONParse(cached).ok
                   THEN [start EXCEPT !.pc = "done", !.returned = JSONParse(cached).val]
                   ELSE [start EXCEPT !.pc = "done",
                                      !.error = Err("SyntaxError", Undefined)]]
          ELSE fetch' = [d \in Calls |->
                   IF d = c
                   THEN [start EXCEPT !.pc = "await_bib", !.nBib = 1,
                                      !.overlapped = (InFlight(c, id) # {})]
                   ELSE IF d \in InFlight(c, id)
                   THEN [fetch[d] EXCEPT !.overlapped = TRUE]
                   ELSE fetch[d]]
    /\ UNCHANGED <<metadataCache, firstResult, lastResult, lastWriter>>

\* a slip: the status of the answer is not tested
BibliographicOutcomeIgnoresStatus(r, u) ==
    IF RequestThrows(r, TRUE) THEN [kind |-> "throw"]
    ELSE IF r.text.entry = Null THEN [kind |-> "throw"]
    ELSE [kind |-> "entry", metadata |-> MetadataOfEntry(r.text.entry, u)]

\* lines 72-105: what is made of the registry's answer
BibliographicOutcome(r, u) ==
    IF RequestThrows(r, TRUE) THEN [kind |-> "throw"]
    ELSE IF r.status # StatusOk THEN [kind |-> "throw"]
    ELSE IF r.text.entry = Null THEN [kind |-> "throw"]
    ELSE [kind |-> "entry", metadata |-> MetadataOfEntry(r.text.entry, u)]

\* a slip: fetchCitationInfo is called once per count, the first call not
\* awaited
BibliographicResponseTwoRequests(c, r) ==
    /\ fetch[c].pc = "await_bib"
    /\ UNCHANGED <<vars, urlVars, searchVars, concurrentVars, host>>
    /\ fetch' = [fetch EXCEPT ![c] =
           IF BibliographicOutcome(r, fetch[c].url).kind = "throw"
           THEN [@ EXCEPT !.response = r, !.pc = "done",
                          !.error = Err("MetadataFetchFailed", Undefined)]
           ELSE [@ EXCEPT !.response = r, !.pc = "await_cit", !.nCit = 2,
                          !.metadata = BibliographicOutcome(r, fetch[c].url).metadata]]
    /\ UNCHANGED <<metadataCache, nCalls, firstResult, lastResult, lastWriter>>

\* lines 72-108: the bibliographic record arrives; build the metadata and
\* GET the citation record
BibliographicResponse(c, r) ==
    /\ fetch[c].pc = "await_bib"
    /\ UNCHANGED <<vars, urlVars, searchVars, concurrentVars, host>>
    /\ fetch' = [fetch EXCEPT ![c] =
           IF BibliographicOutcome(r, fetch[c].url).kind = "throw"
           THEN [@ EXCEPT !.response = r, !.pc = "done",
                          !.error = Err("MetadataFetchFailed", Undefined)]
           ELSE [@ EXCEPT !.response = r, !.pc = "await_cit", !.nCit = 1,
                          !.metadata = BibliographicOutcome(r, fetch[c].url).metadata]]
    /\ UNCHANGED <<metadataCache, nCalls, firstResult, lastResult, lastWriter>>

\* lines 108-118: fetchCitationInfo is over; copy the counts, write the
\* cache and return
CitationResponse(c, r) ==
    /\ fetch[c].pc = "await_cit"
    /\ UNCHANGED <<vars, urlVars, searchVars, concurrentVars, host>>
    /\ IF CitationOutcome(r).kind = "throw"
       THEN /\ fetch' = [fetch EXCEPT ![c] =
                    [@ EXCEPT !.citationResponse = r, !.pc = "done",
                              !.error = Err("MetadataFetchFailed", Undefined)]]
            /\ UNCHANGED <<metadataCache, firstResult, lastResult, lastWriter>>
       ELSE LET id == fetch[c].arxivId
                metadata == WithCitation(fetch[c].metadata, CitationOutcome(r).info)
            IN /\ fetch' = [fetch EXCEPT ![c] =
                       [@ EXCEPT !.citationResponse = r, !.pc = "done",
                                 !.citationInfo = CitationOutcome(r).info,
                                 !.returned = metadata,
                                 !.wrote = Stringify(metadata)]]
               /\ metadataCache' = CacheSet(metadataCache, id, Stringify(metadata))
               /\ firstResult' = IF firstResult[id] = NoMetadata
                                 THEN [firstResult EXCEPT ![id] = metadata]
                                 ELSE firstResult
               /\ lastResult' = [lastResult EXCEPT ![id] = metadata]
               /\ lastWriter' = [lastWriter EXCEPT ![id] = c]
    /\ UNCHANGED nCalls

MetadataNext ==
    \/ \E c \in Calls, u \in MetadataUrls : FetchArxivMetadata(c, u)
    \/ \E c \in Calls, r \in BibResponses : BibliographicResponse(c, r)
    \/ \E c \in Calls, r \in CitationResponses : CitationResponse(c, r)

MetadataSpec == Init /\ [][MetadataNext]_allVars

\* the caller of lines 31-32 holds the object it was returned and may assign
\* to its fields; a cache entry changes with it only if the entry is that
\* object, which a string is not
Edited == Plain(<<"edited">>)
CallerMutates(c) ==
    /\ fetch[c].pc = "done"
    /\ fetch[c].returned # NoMetadata
    /\ Get(fetch[c].returned, "title") # Edited
    /\ UNCHANGED <<vars, urlVars, searchVars, concurrentVars, host>>
    /\ LET mutated == [title |-> Edited] @@ fetch[c].returned
       IN /\ fetch' = [fetch EXCEPT ![c].returned = mutated]
          /\ metadataCache' = [id \in ArxivIds |->
                 IF metadataCache[id] = fetch[c].returned
                 THEN mutated ELSE metadataCache[id]]
    /\ UNCHANGED <<nCalls, firstResult, lastResult, lastWriter>>

MutationNext ==
    \/ \E c \in Calls, u \in {UrlA, UrlB} : FetchArxivMetadata(c, u)
    \/ \E c \in Calls, r \in {b \in BibResponses : ~b.fail} : BibliographicResponse(c, r)
    \/ \E c \in Calls, r \in {b \in CitationResponses : b.status \in {0, 204}} \cup
                             {Response(StatusOk, Encoded(Object([numCitedBy |-> Number(5),
                                                                 numCiting |-> Number(3)])))} :
           CitationResponse(c, r)
    \/ \E c \in Calls : CallerMutates(c)

MutationSpec == Init /\ [][MutationNext]_allVars

(***************************************************************************)
(* normalizeArxivUrl and isValidArxivUrl on their own: the text comes from  *)
(* the clipboard (src/summarizer.ts:14-22, src/metadata.ts:14-22).          *)
(***************************************************************************)
UrlPrefixes == {<< >>, <<"see ">>}
UrlSchemes == {"http:", "https:", "HTTP:"}
UrlHosts == {"arxiv.org", "ARXIV.ORG", "example.com"}
UrlPaths == {"/abs", "/pdf"}
UrlTails ==
    {<< >>, <<"2301.00001">>, <<"2301.00001", ".pdf">>,
     <<"2301.00001", ".pdf", ".pdf">>, <<".pdf">>,
     <<"arxiv.org", "/pdf", "/", "2301.00001">>}
UrlInputs ==
    {prefix \o <<scheme, "//", h, path, "/">> \o tail :
        prefix \in UrlPrefixes, scheme \in UrlSchemes, h \in UrlHosts,
        path \in UrlPaths, tail \in UrlTails}

UrlInit ==
    /\ SummarizerInit
    /\ MetadataInit
    /\ HostIdle
    /\ SearchIdle
    /\ ConcurrentIdle
    /\ urlIn \in UrlInputs
    /\ urlOnce = << >>
    /\ urlTwice = << >>
    /\ urlStep = 0

\* url = this.normalizeArxivUrl(url)
NormalizeOnce ==
    /\ urlStep = 0
    /\ urlOnce' = normalizeArxivUrl(urlIn)
    /\ urlStep' = 1
    /\ UNCHANGED <<urlIn, urlTwice, vars, metadataVars, host,
                   searchVars, concurrentVars>>

\* the result is normalized again (fetchArxivMetadata, line 51, is handed
\* the URL that fetchMetadataFromClipboard has normalized)
NormalizeAgain ==
    /\ urlStep = 1
    /\ urlTwice' = normalizeArxivUrl(urlOnce)
    /\ urlStep' = 2
    /\ UNCHANGED <<urlIn, urlOnce, vars, metadataVars, host,
                   searchVars, concurrentVars>>

UrlNext == NormalizeOnce \/ NormalizeAgain

UrlSpec == UrlInit /\ [][UrlNext]_allVars

(***************************************************************************)
(* summarizeFromClipboard and insertSummary (src/summarizer.ts:14-38,       *)
(* 202-211).                                                                *)
(***************************************************************************)
ClipboardTexts ==
    {UrlA, <<"SP">> \o UrlAPdf \o <<"NL">>, UrlB, UrlOther, <<"see ">> \o UrlA}

ErrorNotice(msg) == [kind |-> "error", msg |-> msg]
InfoNotice(msg) == [kind |-> "info", msg |-> msg]

\* lines 15-28: read the clipboard, normalize, validate, get the active
\* file, show the loading indicator; a throw goes to the catch (line 33) and
\* the finally (line 36)
SummarizeFromClipboard(text, file) ==
    /\ host.pc = "idle"
    /\ pc = "idle"
    /\ LET u == normalizeArxivUrl(Trim(text))
       IN host' =
            IF ~isValidArxivUrl(u)
            THEN [host EXCEPT !.pc = "done", !.command = "summarize", !.url = u,
                              !.notices = Append(@, ErrorNotice("InvalidClipboard"))]
            ELSE IF ~file
            THEN [host EXCEPT !.pc = "done", !.command = "summarize", !.url = u,
                              !.notices = Append(@, ErrorNotice("NoActiveFile"))]
            ELSE [host EXCEPT !.pc = "read", !.command = "summarize", !.url = u,
                              !.activeFile = TRUE, !.loadingIndicator = TRUE]
    /\ UNCHANGED <<vars, metadataVars, urlVars, searchVars, concurrentVars>>

\* line 30: summarizeArxiv(url, activeFile)
CallSummarizeArxiv ==
    /\ host.pc = "read"
    /\ host.command = "summarize"
    /\ SummarizeArxiv(host.url)

\* a slip: the summary is inserted whatever summarizeArxiv did
SettleAlwaysInserts(err, io) ==
    IF io = "ok" THEN "inserted" ELSE "insert failed"

\* lines 30-35 and 202-211: a rejected summarizeArxiv goes to the catch;
\* otherwise insertSummary reads and modifies the file, which may fail
Settle(err, io) ==
    IF err # NoError THEN "failed"
    ELSE IF io = "ok" THEN "inserted"
    ELSE "insert failed"

\* lines 30-37 and 202-211: summarizeArxiv is over; insert the summary or
\* show the error, then hide the loading indicator
ClipboardSettles(io) ==
    /\ host.pc = "summarizing"
    /\ pc = "done"
    /\ host' =
         CASE Settle(error, io) = "inserted" ->
                [host EXCEPT !.pc = "done", !.loadingIndicator = FALSE,
                             !.written = Append(@, returned),
                             !.notices = @ \o <<InfoNotice("Inserted"),
                                                InfoNotice("Inserted")>>]
           [] Settle(error, io) = "insert failed" ->
                [host EXCEPT !.pc = "done", !.loadingIndicator = FALSE,
                             !.notices = Append(@, ErrorNotice("VaultError"))]
           [] OTHER ->
                [host EXCEPT !.pc = "done", !.loadingIndicator = FALSE,
                             !.notices = Append(@, ErrorNotice(error.msg))]
    /\ UNCHANGED <<vars, metadataVars, urlVars, searchVars, concurrentVars>>

ClipboardNext ==
    \/ \E text \in ClipboardTexts, file \in BOOLEAN : SummarizeFromClipboard(text, file)
    \/ CallSummarizeArxiv
    \/ \E r \in CheckResponses : PrecheckResponse(r)
    \/ \E r \in SubmitResponses : SubmitResponse(r)
    \/ InitialDelayFires
    \/ \E r \in StatusResponses : StatusResponse(r)
    \/ SleepFires
    \/ \E io \in {"ok", "fails"} : ClipboardSettles(io)

ClipboardSpec == Init /\ [][ClipboardNext]_allVars

(***************************************************************************)
(* fetchMetadataFromClipboard and insertMetadata (src/metadata.ts:14-36,    *)
(* 180-276).                                                                *)
(***************************************************************************)
\* lines 15-28: read the clipboard, normalize, validate, create a file when
\* none is active (vault.create may fail)
FetchMetadataFromClipboard(text, file, io) ==
    /\ host.pc = "idle"
    /\ fetch["first"].pc = "idle"
    /\ LET u == normalizeArxivUrl(Trim(text))
       IN host' =
            IF ~isValidArxivUrl(u)
            THEN [host EXCEPT !.pc = "done", !.command = "metadata", !.url = u,
                              !.notices = Append(@, ErrorNotice("InvalidClipboard"))]
            ELSE IF file
            THEN [host EXCEPT !.pc = "read", !.command = "metadata", !.url = u,
                              !.activeFile = TRUE]
            ELSE IF io = "fails"
            THEN [host EXCEPT !.pc = "done", !.command = "metadata", !.url = u,
                              !.notices = Append(@, ErrorNotice("VaultError"))]
            ELSE [host EXCEPT !.pc = "read", !.command = "metadata", !.url = u,
                              !.activeFile = TRUE,
                              !.fileName = <<"Arxiv Paper - today">>,
                              !.created = Append(@, [name |-> <<"Arxiv Paper - today">>,
                                                     source |-> Plain(<<"clipboard">>)]),
                              !.notices = Append(@, InfoNotice("FileCreated"))]
    /\ UNCHANGED <<vars, metadataVars, urlVars, searchVars, concurrentVars>>

\* line 31: fetchArxivMetadata(url)
CallFetchArxivMetadata ==
    /\ host.pc = "read"
    /\ host.command = "metadata"
    /\ FetchArxivMetadata("first", host.url)

\* lines 194-205: the front matter that is written (the file has none yet)
UpdatedFrontmatter(metadata) ==
    [title |-> Get(metadata, "title"),
     paper_link |-> Get(metadata, "paperLink"),
     publish_date |-> Get(metadata, "publishDate"),
     authors |-> Get(metadata, "authors"),
     num_cited_by |-> OrElse(Get(metadata, "numCitedBy"), Number(0)),
     num_citing |-> OrElse(Get(metadata, "numCiting"), Number(0)),
     checked |-> False, interest |-> Null, rating |-> Null, tags |-> Null]

\* fileName.replace(/[:\/\\]/g, '_')
sanitizeFileName(chars) ==
    [i \in 1..Len(chars) |-> IF chars[i] \in {":", "/", "BS"} THEN "_" ELSE chars[i]]

\* the awaits of insertMetadata, in the order of the code; io names the one
\* that fails ("ok": none)
InsertSteps == <<"processFrontMatter", "read", "modify", "rename">>
Passed(io, step) ==
    \/ io = "ok"
    \/ io = "rename"
    \/ \E i, j \in 1..Len(InsertSteps) : InsertSteps[i] = io /\ InsertSteps[j] = step /\ j < i

\* a slip: the plugin is looked for after the front matter was processed
insertMetadataChecksLate(h, metadata, metaedit, io) ==
    IF ~metaedit
    THEN [h EXCEPT !.frontmatter = IF Passed(io, "processFrontMatter")
                                   THEN UpdatedFrontmatter(metadata) ELSE @,
                   !.notices = Append(@, ErrorNotice("NoMetaedit"))]
    ELSE [h EXCEPT
            !.frontmatter = IF Passed(io, "processFrontMatter")
                            THEN UpdatedFrontmatter(metadata) ELSE @,
            !.written = IF Passed(io, "modify")
                        THEN Append(@, Get(metadata, "abstract")) ELSE @,
            !.fileName = IF io = "ok" /\ Truthy(Get(metadata, "title"))
                         THEN sanitizeFileName(Get(metadata, "title").chars) ELSE @,
            !.notices = IF io = "ok"
                        THEN @ \o (IF Truthy(Get(metadata, "title"))
                                   THEN <<InfoNotice("Renamed")>> ELSE << >>)
                               \o <<InfoNotice("MetadataInserted")>>
                        ELSE IF io = "rename"
                        THEN @ \o <<ErrorNotice("RenameError"),
                                    InfoNotice("MetadataInserted")>>
                        ELSE Append(@, ErrorNotice("InsertError"))]

\* lines 180-259: insertMetadata(metadata, file) on a file that is there
insertMetadata(h, metadata, metaedit, io) ==
    IF ~metaedit
    THEN [h EXCEPT !.notices = Append(@, ErrorNotice("NoMetaedit"))]
    ELSE [h EXCEPT
            !.frontmatter = IF Passed(io, "processFrontMatter")
                            THEN UpdatedFrontmatter(metadata) ELSE @,
            !.written = IF Passed(io, "modify")
                        THEN Append(@, Get(metadata, "abstract")) ELSE @,
            !.fileName = IF io = "ok" /\ Truthy(Get(metadata, "title"))
                         THEN sanitizeFileName(Get(metadata, "title").chars) ELSE @,
            !.notices = IF io = "ok"
                        THEN @ \o (IF Truthy(Get(metadata, "title"))
                                   THEN <<InfoNotice("Renamed")>> ELSE << >>)
                               \o <<InfoNotice("MetadataInserted")>>
                        ELSE IF io = "rename"
                        THEN @ \o <<ErrorNotice("RenameError"),
                                    InfoNotice("MetadataInserted")>>
                        ELSE Append(@, ErrorNotice("InsertError"))]

\* lines 31-35: fetchArxivMetadata is over; a rejection goes to the catch,
\* otherwise insertMetadata runs and the notice of line 33 is shown
InsertMetadata(metaedit, io) ==
    /\ host.pc = "fetching"
    /\ host.command = "metadata"
    /\ fetch["first"].pc = "done"
    /\ host' =
         IF fetch["first"].error # NoError
         THEN [host EXCEPT !.pc = "done",
                           !.notices = Append(@, ErrorNotice(fetch["first"].error.msg))]
         ELSE [insertMetadata(host, fetch["first"].returned, metaedit, io) EXCEPT
                  !.pc = "done",
                  !.metaedit = IF metaedit THEN "installed" ELSE "absent",
                  !.io = IF metaedit THEN io ELSE "none",
                  !.notices = Append(@, InfoNotice("MetadataInserted"))]
    /\ UNCHANGED <<vars, metadataVars, urlVars, searchVars, concurrentVars>>

InsertNext ==
    \/ \E text \in ClipboardTexts, file \in BOOLEAN, io \in {"ok", "fails"} :
           FetchMetadataFromClipboard(text, file, io)
    \/ CallFetchArxivMetadata
    \/ \E r \in BibResponses : BibliographicResponse("first", r)
    \/ \E r \in CitationResponses : CitationResponse("first", r)
    \/ \E metaedit \in BOOLEAN, io \in {"ok"} \cup {InsertSteps[i] : i \in 1..Len(InsertSteps)} :
           InsertMetadata(metaedit, io)

InsertSpec == Init /\ [][InsertNext]_allVars

(***************************************************************************)
(* fetchArxivData (src/metadata.ts:462-484): a fixed number of attempts     *)
(* with a flat delay between them.                                          *)
(***************************************************************************)
DefaultMaxRetries == 10
RetryDelay == 5000
MaxRetriesBound == 3
RetryCounts == 0..MaxRetriesBound \cup {DefaultMaxRetries}
SearchResponses ==
    {Response(StatusOk, Xml(EntryFull)), Response(204, EmptyString),
     Response(404, EmptyString), Response(500, EmptyString), TransportFailure}

\* lines 467-470: the error an attempt raises (NoError: none)
AttemptError(r) ==
    IF RequestThrows(r, TRUE) THEN Err("RequestFailed", Number(r.status))
    ELSE IF r.status # StatusOk THEN Err("HttpError", Number(r.status))
    ELSE NoError

\* a slip: the delay is taken after the last attempt too
RetryOutcomeAlwaysSleeps(r, att, maxRetries) ==
    IF AttemptError(r) = NoError THEN "return" ELSE "sleep"

\* lines 467-481: what becomes of an attempt
RetryOutcome(r, att, maxRetries) ==
    IF AttemptError(r) = NoError THEN "return"
    ELSE IF att < maxRetries - 1 THEN "sleep"
    ELSE "throw"

\* lines 465-467 and 483: the loop head; request again or leave the loop
RetryLoopHead(att, maxRetries) ==
    IF att < maxRetries
    THEN [retry EXCEPT !.pc = "await", !.attempt = att, !.maxRetries = maxRetries,
                       !.nRequests = @ + 1, !.timer = << >>]
    ELSE [retry EXCEPT !.pc = "done", !.attempt = att, !.maxRetries = maxRetries,
                       !.returned = Null, !.timer = << >>]

\* lines 462-467: fetchArxivData(query, maxRetries)
FetchArxivData(maxRetries) ==
    /\ retry.pc = "idle"
    /\ retry' = RetryLoopHead(0, maxRetries)
    /\ UNCHANGED <<vars, metadataVars, urlVars, host, concurrentVars>>

\* lines 467-481: the response of an attempt arrives
ArxivDataResponse(r) ==
    /\ retry.pc = "await"
    /\ retry' =
         CASE RetryOutcome(r, retry.attempt, retry.maxRetries) = "return" ->
                [retry EXCEPT !.pc = "done", !.response = r, !.returned = r.text]
           [] RetryOutcome(r, retry.attempt, retry.maxRetries) = "sleep" ->
                [retry EXCEPT !.pc = "sleeping", !.response = r, !.nFailed = @ + 1,
                              !.timer = <<RetryDelay>>,
                              !.delays = Append(@, RetryDelay)]
           [] OTHER ->
                [retry EXCEPT !.pc = "done", !.response = r, !.nFailed = @ + 1,
                              !.error = AttemptError(r)]
    /\ UNCHANGED <<vars, metadataVars, urlVars, host, concurrentVars>>

\* line 476: the delay is over; attempt++ and back to the loop head
RetryDelayFires ==
    /\ retry.pc = "sleeping"
    /\ retry' = RetryLoopHead(retry.attempt + 1, retry.maxRetries)
    /\ UNCHANGED <<vars, metadataVars, urlVars, host, concurrentVars>>

SearchNext ==
    \/ \E maxRetries \in RetryCounts : FetchArxivData(maxRetries)
    \/ \E r \in SearchResponses : ArxivDataResponse(r)
    \/ RetryDelayFires

SearchSpec == Init /\ [][SearchNext]_allVars

(***************************************************************************)
(* summarizeFromClipboard run more than once at a time                      *)
(* (src/summarizer.ts:14-38, 182-211): the operations share the plugin's    *)
(* loadingIndicator field, document.body and the active file.               *)
(***************************************************************************)
\* lines 182-193
showLoadingIndicator(d) ==
    IF d.loadingIndicator THEN d
    ELSE [elements |-> d.elements + 1, loadingIndicator |-> TRUE]

\* lines 195-200
hideLoadingIndicator(d) ==
    IF d.loadingIndicator
    THEN [elements |-> d.elements - 1, loadingIndicator |-> FALSE]
    ELSE d

InProgress(o) == ops[o].pc \in {"summarizing", "reading", "modifying"}

\* lines 15-30: the clipboard is read and validated; a throw goes to the
\* catch and the finally, otherwise the indicator is shown and
\* summarizeArxiv is awaited
OpStarts(o, valid) ==
    /\ ops[o].pc = "idle"
    /\ IF valid
       THEN /\ ops' = [ops EXCEPT ![o].pc = "summarizing"]
            /\ dom' = showLoadingIndicator(dom)
       ELSE /\ ops' = [ops EXCEPT ![o].pc = "failed"]
            /\ dom' = hideLoadingIndicator(dom)
    /\ UNCHANGED <<vars, metadataVars, urlVars, host, searchVars, note>>

\* lines 30-31 and 204: summarizeArxiv is over; on a summary insertSummary
\* awaits vault.read
OpSummarized(o, ok) ==
    /\ ops[o].pc = "summarizing"
    /\ IF ok
       THEN /\ ops' = [ops EXCEPT ![o].pc = "reading", ![o].summary = <<o>>]
            /\ dom' = dom
       ELSE /\ ops' = [ops EXCEPT ![o].pc = "failed"]
            /\ dom' = hideLoadingIndicator(dom)
    /\ UNCHANGED <<vars, metadataVars, urlVars, host, searchVars, note>>

\* lines 204-206: vault.read resolves with the content of the file;
\* newContent is made of it and vault.modify is awaited
OpRead(o, ok) ==
    /\ ops[o].pc = "reading"
    /\ IF ok
       THEN /\ ops' = [ops EXCEPT ![o].pc = "modifying", ![o].content = note]
            /\ dom' = dom
       ELSE /\ ops' = [ops EXCEPT ![o].pc = "failed"]
            /\ dom' = hideLoadingIndicator(dom)
    /\ UNCHANGED <<vars, metadataVars, urlVars, host, searchVars, note>>

\* lines 206-207 and 32-37: vault.modify writes newContent; the operation
\* ends and hides the indicator
OpModified(o, ok) ==
    /\ ops[o].pc = "modifying"
    /\ IF ok
       THEN /\ ops' = [ops EXCEPT ![o].pc = "inserted"]
            /\ note' = ops[o].content \o ops[o].summary
       ELSE /\ ops' = [ops EXCEPT ![o].pc = "failed"]
            /\ note' = note
    /\ dom' = hideLoadingIndicator(dom)
    /\ UNCHANGED <<vars, metadataVars, urlVars, host, searchVars>>

ConcurrentNext ==
    \/ \E o \in OpIds, valid \in BOOLEAN : OpStarts(o, valid)
    \/ \E o \in OpIds, ok \in BOOLEAN : OpSummarized(o, ok)
    \/ \E o \in OpIds, ok \in BOOLEAN : OpRead(o, ok)
    \/ \E o \in OpIds, ok \in BOOLEAN : OpModified(o, ok)

ConcurrentSpec == Init /\ [][ConcurrentNext]_allVars

(***************************************************************************)
(* One summarize operation and one metadata fetch side by side              *)
(* (src/main.ts registers both commands).                                   *)
(***************************************************************************)
OperationsNext ==
    \/ \E u \in {UrlA, UrlOther} : SummarizeArxiv(u)
    \/ \E r \in {Response(StatusOk, HitText), Response(404, EmptyString),
                 TransportFailure} : PrecheckResponse(r)
    \/ \E r \in {Response(StatusAccepted, Encoded(Object([request_id |-> Plain(<<"req-1">>)]))),
                 Response(500, EmptyString), TransportFailure} : SubmitResponse(r)
    \/ InitialDelayFires
    \/ \E r \in {Response(StatusOk, PendingText), Response(StatusOk, Garbage),
                 Response(StatusOk, Encoded(Object([status |-> Completed,
                                                    result |-> HitResult,
                                                    url |-> Plain(UrlA)]))),
                 TransportFailure} : StatusResponse(r)
    \/ SleepFires
    \/ \E u \in {UrlA, UrlOldStyle} : FetchArxivMetadata("first", u)
    \/ \E r \in BibResponses : BibliographicResponse("first", r)
    \/ \E r \in CitationResponses : CitationResponse("first", r)

OperationsSpec == Init /\ [][OperationsNext]_allVars

(***************************************************************************)
(* Properties of the job machine.                                          *)
(***************************************************************************)
Arrived(r) == r # NoResponse /\ ~r.fail
PollStates == {"POLLING", "COMPLETED", "ERROR", "TIMEOUT"}
TerminalStates == {"CACHED_HIT", "FAILED", "COMPLETED", "ERROR", "TIMEOUT"}

\* the body is a JSON envelope whose result field is a string that is JSON too
DoubleDecodes(r) ==
    /\ r.text.json.ok
    /\ r.text.json.val.ty = "object"
    /\ "result" \in DOMAIN r.text.json.val
    /\ r.text.json.val.result.ty = "string"
    /\ r.text.json.val.result.json.ok

\* C1: when the /check response is 200 and its body double-decodes to a
\* result, the run ends in CACHED_HIT and has issued no /service and no
\* /status request.
C1_PrecheckHitSkipsSubmit ==
    (Arrived(preCheckResponse) /\ preCheckResponse.status = 200
         /\ DoubleDecodes(preCheckResponse))
        => /\ pc = "done"
           /\ mstate = "CACHED_HIT"
           /\ returned # NoSummary
           /\ nService = 0
           /\ nStatus = 0
           /\ outstanding = "none"

C1_Witness ==
    /\ preCheckResponse = Response(200, HitText)
    /\ mstate = "CACHED_HIT"
    /\ nCheck = 1

\* C2: a run of summarizeArxiv on a valid URL only takes the transitions
\* PRECHECK -> {CACHED_HIT, SUBMIT}, SUBMIT -> {ACCEPTED, FAILED},
\* ACCEPTED -> POLLING, POLLING -> {COMPLETED, ERROR, TIMEOUT}; nothing is
\* requested in a terminal state, and a summary is returned exactly in
\* CACHED_HIT and COMPLETED.
C2_Step ==
    (entry' = "summarizeArxiv" /\ mstate' # "INVALID" /\ mstate' # mstate)
        => \/ mstate = "IDLE" /\ mstate' = "PRECHECK"
           \/ mstate = "PRECHECK" /\ mstate' \in {"CACHED_HIT", "SUBMIT"}
           \/ mstate = "SUBMIT" /\ mstate' \in {"ACCEPTED", "FAILED"}
           \/ mstate = "ACCEPTED" /\ mstate' = "POLLING"
           \/ mstate = "POLLING" /\ mstate' \in {"COMPLETED", "ERROR", "TIMEOUT"}

C2_Terminal ==
    (mstate \in TerminalStates)
        => /\ nCheck' = nCheck /\ nService' = nService /\ nStatus' = nStatus
           /\ mstate' = mstate
           /\ (returned # NoSummary) = (mstate \in {"CACHED_HIT", "COMPLETED"})

C2_OnlySpecTransitions == [][C2_Step /\ C2_Terminal]_vars

\* the one transition outside that list: the /check request gets no response
\* and the run ends in FAILED without a /service request
C2_StepOrPrecheckFailure ==
    C2_Step \/ (mstate = "PRECHECK" /\ mstate' = "FAILED" /\ preCheckResponse'.fail)

C2_ExceptPrecheckFailure == [][C2_StepOrPrecheckFailure /\ C2_Terminal]_vars

C2_PrecheckFailure ==
    /\ mstate = "FAILED"
    /\ preCheckResponse.fail
    /\ nService = 0

\* C3: a run of pollForResult whose /status responses are all 200 with a
\* status other than COMPLETED and ERROR ends with the Timeout error after
\* exactly maxAttempts /status requests.
C3_TimeoutAfterMaxAttempts ==
    (mstate \in PollStates /\ onlyPending)
        => /\ nStatus <= maxAttempts
           /\ mstate \in {"POLLING", "TIMEOUT"}
           /\ (pc = "done" => /\ mstate = "TIMEOUT"
                              /\ error = Err("Timeout", Undefined)
                              /\ nStatus = maxAttempts)
           /\ (pc = "await_status" => nStatus = attempt + 1)
           /\ (pc = "sleeping" => nStatus = attempt + 1)

C3_Witness ==
    /\ mstate = "TIMEOUT"
    /\ entry = "pollForResult"
    /\ maxAttempts = MaxAttemptsBound
    /\ nStatus = MaxAttemptsBound

\* C4: the k-th sleep lasts interval_k with interval_0 = initialInterval and
\* interval_{k+1} = min(1.5 * interval_k, 10000); when initialInterval is at
\* most 10000 the sleeps never decrease and never exceed 10000 ms.
C4_BackoffRecurrence ==
    \A k \in 1..Len(sleeps) :
        /\ k = 1 => sleeps[k] = initialInterval
        /\ k > 1 =>
             LET a == sleeps[k - 1]
                 b == sleeps[k]
             IN IF 3 * a.n <= 2 * a.d * 10000
                THEN 2 * a.d * b.n = 3 * a.n * b.d
                ELSE b.n = 10000 * b.d
        /\ initialInterval.n <= 10000 * initialInterval.d =>
             /\ sleeps[k].n <= 10000 * sleeps[k].d
             /\ k > 1 => sleeps[k - 1].n * sleeps[k].d <= sleeps[k].n * sleeps[k - 1].d

C4_Witness ==
    /\ Len(sleeps) >= 8
    /\ sleeps[8] = Whole(10000)
    /\ sleeps[2] = Whole(1500)

\* C5: from the initial interval 1000 the sleeps wait 1000, 1500, 2250, 3375,
\* 5062, 7593, 10000, 10000, ... whole milliseconds.
C5_Expected == <<1000, 1500, 2250, 3375, 5062, 7593>>

C5_BackoffSequence ==
    (initialInterval = Whole(1000))
        => \A k \in 1..Len(sleeps) :
               TimerDelay(sleeps[k]) = IF k <= 6 THEN C5_Expected[k] ELSE 10000

C5_Witness ==
    /\ initialInterval = Whole(1000)
    /\ Len(sleeps) >= 9
    /\ sleeps[5] = [n |-> 10125, d |-> 2]

\* C6: a /check response with a status other than 200, or with an empty
\* body, raises no error and is followed by exactly one /service request.
C6_PrecheckMissSubmits ==
    (Arrived(preCheckResponse)
         /\ (preCheckResponse.status # 200 \/ Len(preCheckResponse.text.chars) = 0))
        => /\ nService = 1
           /\ mstate \notin {"PRECHECK", "CACHED_HIT"}
           /\ (submitResponse = NoResponse
                  => mstate = "SUBMIT" /\ pc = "await_submit" /\ error = NoError)

C6_Witness ==
    /\ preCheckResponse = Response(500, HitText)
    /\ mstate = "SUBMIT"
    /\ nService = 1

\* C7: CACHED_HIT is reached exactly when the /check response is 200 and its
\* body decodes to an envelope whose non-empty result string decodes too;
\* every other response leads to SUBMIT.
C7_CachedHitIffDoubleDecodes ==
    Arrived(preCheckResponse)
        => IF preCheckResponse.status = 200 /\ DoubleDecodes(preCheckResponse)
           THEN mstate = "CACHED_HIT"
           ELSE /\ mstate \notin {"PRECHECK", "CACHED_HIT"}
                /\ nService = 1
                /\ (submitResponse = NoResponse => mstate = "SUBMIT")

C7_Witness ==
    /\ preCheckResponse = Response(200, Encoded(Object([result |-> Garbage])))
    /\ mstate = "SUBMIT"

\* C8: a /service response with a status other than 202 ends the run in
\* FAILED with an error, before the initial delay and before any /status
\* request.
C8_SubmitRejected ==
    (Arrived(submitResponse) /\ submitResponse.status # 202)
        => /\ pc = "done"
           /\ mstate = "FAILED"
           /\ error.msg \in {"SubmitFailed", "RequestFailed"}
           /\ returned = NoSummary
           /\ nDelay = 0
           /\ nStatus = 0
           /\ timer = << >>

C8_Witness ==
    /\ Arrived(submitResponse)
    /\ submitResponse.status = 200
    /\ mstate = "FAILED"
    /\ error = Err("SubmitFailed", Number(200))

\* C9: a 200 /status response with status ERROR ends pollForResult at once
\* in ERROR with an error carrying the upstream error field; no /status
\* request and no sleep follows.
UpstreamErrorResponse(r) ==
    /\ Arrived(r)
    /\ r.status = 200
    /\ r.text.json.ok
    /\ r.text.json.val.ty = "object"
    /\ Get(r.text.json.val, "status") = Error

C9_UpstreamErrorEnds ==
    UpstreamErrorResponse(response)
        => /\ pc = "done"
           /\ mstate = "ERROR"
           /\ error = Err("UpstreamError", Get(response.text.json.val, "error"))
           /\ nStatus = attempt + 1
           /\ Len(sleeps) = attempt
           /\ outstanding = "none"
           /\ timer = << >>

C9_Witness ==
    /\ UpstreamErrorResponse(response)
    /\ error.detail = Plain(<<"boom">>)
    /\ attempt = 2
    /\ maxAttempts > 3

\* C10: a /status response that is not 200, or is 200 with a body that does
\* not decode or a COMPLETED body whose result does not decode, ends
\* pollForResult in ERROR on that attempt; no /status request follows,
\* however many attempts remain.
UndecodableResponse(r) ==
    /\ r.status = 200
    /\ \/ ~r.text.json.ok
       \/ /\ r.text.json.val.ty = "object"
          /\ Get(r.text.json.val, "status") = Completed
          /\ LET e == Get(r.text.json.val, "result")
             IN e.ty = "undefined" \/ (e.ty = "string" /\ ~e.json.ok)

C10_BadStatusResponseIsFatal ==
    (Arrived(response) /\ (response.status # 200 \/ UndecodableResponse(response)))
        => /\ pc = "done"
           /\ mstate = "ERROR"
           /\ error # NoError
           /\ returned = NoSummary
           /\ nStatus = attempt + 1
           /\ Len(sleeps) = attempt
           /\ outstanding = "none"
           /\ timer = << >>

C10_Witness ==
    /\ Arrived(response)
    /\ response.status = 204
    /\ mstate = "ERROR"
    /\ attempt = 1
    /\ maxAttempts = DefaultMaxAttempts

\* C11: when every request is eventually answered and every timer eventually
\* fires, a summarizeArxiv run eventually ends (in a terminal state of the
\* job machine, or rejected at once for an invalid URL), and it sends at most one /check request, at most one /service
\* request and at most maxAttempts /status requests.
C11_RequestBudget ==
    entry = "summarizeArxiv"
        => /\ nCheck <= 1
           /\ nService <= 1
           /\ nStatus <= DefaultMaxAttempts
           /\ (mstate \in PollStates => nStatus <= maxAttempts)

C11_EndsWithinBudget ==
    /\ []C11_RequestBudget
    /\ (entry = "summarizeArxiv")
           ~> (pc = "done" /\ mstate \in TerminalStates \cup {"INVALID"})

C11_Witness ==
    /\ entry = "summarizeArxiv"
    /\ pc = "done"
    /\ mstate = "TIMEOUT"
    /\ nCheck = 1
    /\ nService = 1
    /\ nStatus = DefaultMaxAttempts

\* C24: after a 202 submit response summarizeArxiv issues its first /status
\* request only when the fixed 2000 ms delay has elapsed, and no /status
\* request is issued before the request identifier has been read from the
\* decoded submit response.
C24_FirstPollAfterDelay ==
    entry = "summarizeArxiv"
        => /\ pc = "initial_delay"
                  => /\ nStatus = 0
                     /\ nDelay = 1
                     /\ timer = <<[n |-> 2000, d |-> 1]>>
           /\ nDelay = 0 => nStatus = 0
           /\ nStatus >= 1
                  => /\ nDelay = 1
                     /\ ~submitResponse.fail
                     /\ submitResponse.status = 202
                     /\ submitResponse.text.json.ok
                     /\ submitResponse.text.json.val.ty = "object"
                     /\ sentRequestId = Get(submitResponse.text.json.val, "request_id")

C24_Witness ==
    /\ entry = "summarizeArxiv"
    /\ pc = "await_status"
    /\ nStatus = 1
    /\ nDelay = 1
    /\ sentRequestId = [ty |-> "string", chars |-> <<"req-2">>, json |-> NoJson]

\* C25: when a /status response is 200 with a status other than COMPLETED
\* and ERROR, pollForResult neither returns nor raises on that attempt: it
\* sleeps the current interval and then, if attempts remain, issues the next
\* /status request with the same request identifier.
C25_Step ==
    /\ (pc = "await_status" /\ pc' # "await_status" /\ IsPending(response'))
           => /\ pc' = "sleeping"
              /\ mstate' = "POLLING"
              /\ timer' = <<interval>>
              /\ error'.msg = "none"
              /\ returned' = [header |-> "none"]
              /\ nStatus' = nStatus
    /\ (pc = "sleeping" /\ pc' # "sleeping")
           => IF attempt + 1 < maxAttempts
              THEN /\ pc' = "await_status"
                   /\ nStatus' = nStatus + 1
                   /\ sentRequestId' = sentRequestId
                   /\ sentRequestId' = requestId
              ELSE /\ pc' = "done"
                   /\ nStatus' = nStatus

C25_PendingSleepsThenPolls == [][C25_Step]_allVars

C25_Witness ==
    /\ pc = "await_status"
    /\ nStatus = 3
    /\ IsPending(response)
    /\ Len(sleeps) = 2
    /\ sentRequestId = requestId

(***************************************************************************)
(* Properties of fetchArxivMetadata and fetchCitationInfo.                  *)
(***************************************************************************)
\* the call is over and made its citation request: the response is in
Answered(c) == fetch[c].pc = "done" /\ fetch[c].nCit = 1

\* the citation registry failed: no response, a status other than 200, or a
\* body that does not decode
CitationFailed(r) == r.fail \/ r.status # 200 \/ ~r.text.json.ok

Zero == [ty |-> "number", num |-> 0]

\* C12 as claimed: after one call succeeded for an identifier, every later
\* call for it returns the first call's result and issues no request.
C12_LaterCallsReturnFirstResult ==
    \A c \in Calls :
        (fetch[c].pc = "done" /\ fetch[c].afterSuccess)
            => /\ fetch[c].nBib = 0
               /\ fetch[c].nCit = 0
               /\ fetch[c].error.msg = "none"
               /\ fetch[c].returned = firstResult[fetch[c].arxivId]

\* C12 as amended: after one call succeeded for an identifier, every later
\* call for it issues no request and returns the metadata of the call that
\* wrote the cache last before it started (the first call's result unless a
\* call that overlapped the first one wrote after it).
C12_LaterCallsAnswerFromCache ==
    \A c \in Calls :
        (fetch[c].pc = "done" /\ fetch[c].afterSuccess)
            => /\ fetch[c].nBib = 0
               /\ fetch[c].nCit = 0
               /\ fetch[c].error.msg = "none"
               /\ fetch[c].returned = fetch[c].expected

C12_Witness ==
    \E c \in Calls :
        /\ fetch[c].pc = "done"
        /\ fetch[c].afterSuccess
        /\ fetch[c].nBib = 0
        /\ fetch[c].returned = fetch[c].expected
        /\ fetch[c].returned # firstResult[fetch[c].arxivId]

\* C13: every cache entry carries the citation counts of a fetchCitationInfo
\* call that was over before the entry was written; a call writes nothing
\* between the arrival of its bibliographic record and the end of its
\* citation call.
C13_CacheEntriesCarryCounts ==
    /\ \A id \in ArxivIds :
           metadataCache[id].ty # "undefined"
               => /\ metadataCache[id].json.ok
                  /\ "numCitedBy" \in DOMAIN metadataCache[id].json.val
                  /\ "numCiting" \in DOMAIN metadataCache[id].json.val
                  /\ metadataCache[id].json.val.numCitedBy.ty = "number"
                  /\ metadataCache[id].json.val.numCiting.ty = "number"
                  /\ lastWriter[id] \in Calls
    /\ \A c \in Calls :
           /\ fetch[c].pc \in {"await_bib", "await_cit"}
                  => fetch[c].wrote.ty = "undefined"
           /\ fetch[c].wrote.ty # "undefined"
                  => /\ Answered(c)
                     /\ "numCitedBy" \in DOMAIN fetch[c].wrote.json.val
                     /\ "numCiting" \in DOMAIN fetch[c].wrote.json.val
                     /\ fetch[c].wrote.json.val.numCitedBy = fetch[c].citationInfo.numCitedBy
                     /\ fetch[c].wrote.json.val.numCiting = fetch[c].citationInfo.numCiting

C13_Witness ==
    \E c, d \in Calls :
        /\ fetch[c].pc = "await_cit"
        /\ fetch[d].wrote.ty # "undefined"
        /\ fetch[d].arxivId = fetch[c].arxivId
        /\ metadataCache[fetch[c].arxivId] = fetch[d].wrote
        /\ fetch[d].wrote.json.val.numCitedBy.num = 5

\* C14: fetchCitationInfo never raises; on a transport failure, a status
\* other than 200 or a body that does not decode it returns zero counts and
\* empty lists.
C14_CitationFailureGivesZeros ==
    \A c \in Calls :
        Answered(c)
            => /\ fetch[c].error.msg = "none"
               /\ "numCitedBy" \in DOMAIN fetch[c].citationInfo
               /\ CitationFailed(fetch[c].citationResponse)
                      => /\ fetch[c].citationInfo.numCitedBy = Zero
                         /\ fetch[c].citationInfo.numCiting = Zero
                         /\ fetch[c].citationInfo.influentialCitations = << >>
                         /\ fetch[c].citationInfo.influentialReferences = << >>

C14_Witness ==
    \E c \in Calls :
        /\ Answered(c)
        /\ fetch[c].citationResponse.fail
        /\ fetch[c].citationInfo.numCitedBy = Zero
        /\ fetch[c].citationInfo.influentialCitations = << >>

\* the text fields the code is to make of the two sample entries
ExpectedOfEntry(e, u) ==
    IF "title" \in DOMAIN e
    THEN [title |-> <<"Example", "SP", "Paper">>,
          paperLink |-> <<"http://arxiv.org/abs/2301.00001v1">>,
          publishDate |-> <<"2023-01-01">>,
          authors |-> <<"Ann", ", ", "Bob">>,
          abstract |-> <<"a", "SP", "b", "SP", "c">>]
    ELSE [title |-> <<"no title">>,
          paperLink |-> u,
          publishDate |-> <<"no date">>,
          authors |-> << >>,
          abstract |-> <<"no abstract">>]

\* C15: when the bibliographic registry answers 200 with an entry and the
\* citation registry fails in any way, fetchArxivMetadata still succeeds:
\* it returns the bibliographic fields with numCitedBy = 0 and numCiting = 0.
C15_CitationFailureStillSucceeds ==
    \A c \in Calls :
        (Answered(c) /\ CitationFailed(fetch[c].citationResponse))
            => /\ fetch[c].error.msg = "none"
               /\ fetch[c].returned.numCitedBy = Zero
               /\ fetch[c].returned.numCiting = Zero
               /\ \A f \in {"title", "paperLink", "publishDate", "authors", "abstract"} :
                      /\ fetch[c].returned[f].ty = "string"
                      /\ fetch[c].returned[f].chars =
                             ExpectedOfEntry(fetch[c].response.text.entry, fetch[c].url)[f]

C15_Witness ==
    \E c \in Calls :
        /\ Answered(c)
        /\ fetch[c].citationResponse.status = 500
        /\ fetch[c].response.text.entry = EntryFull
        /\ fetch[c].returned.title.chars = <<"Example", "SP", "Paper">>
        /\ fetch[c].returned.numCitedBy = Zero

\* what the registry's body flags, by paperId and in the order of the body
IsFlaggedRaw(paper) ==
    /\ "isInfluential" \in DOMAIN paper
    /\ paper.isInfluential = [ty |-> "boolean", b |-> TRUE]
RawFlaggedIds(data, field) ==
    IF field \in DOMAIN data
    THEN LET kept == SelectSeq(data[field].items, IsFlaggedRaw)
         IN [i \in 1..Len(kept) |-> kept[i].paperId]
    ELSE << >>
PaperIds(papers) == [i \in 1..Len(papers) |-> papers[i].paperId]

\* the registry's lists are all there and every paper has its authors
WellFormed(data) ==
    /\ "citations" \in DOMAIN data
    /\ "references" \in DOMAIN data
    /\ \A f \in {"citations", "references"} :
           \A i \in 1..Len(data[f].items) : "authors" \in DOMAIN data[f].items[i]

\* C16: for every answer of the citation registry, influentialCitations and
\* influentialReferences are exactly the papers of the raw lists whose
\* isInfluential flag is set, in the order of the raw lists.
C16_InfluentialAreTheFlagged ==
    \A c \in Calls :
        (Answered(c) /\ ~CitationFailed(fetch[c].citationResponse))
            => /\ PaperIds(fetch[c].citationInfo.influentialCitations)
                   = RawFlaggedIds(fetch[c].citationResponse.text.json.val, "citations")
               /\ PaperIds(fetch[c].citationInfo.influentialReferences)
                   = RawFlaggedIds(fetch[c].citationResponse.text.json.val, "references")

\* the same for the answers whose lists are well formed
C16_ExceptMalformedLists ==
    \A c \in Calls :
        (/\ Answered(c)
         /\ ~CitationFailed(fetch[c].citationResponse)
         /\ WellFormed(fetch[c].citationResponse.text.json.val))
            => /\ PaperIds(fetch[c].citationInfo.influentialCitations)
                   = RawFlaggedIds(fetch[c].citationResponse.text.json.val, "citations")
               /\ PaperIds(fetch[c].citationInfo.influentialReferences)
                   = RawFlaggedIds(fetch[c].citationResponse.text.json.val, "references")

\* C17: the PaperMetadata that fetchArxivMetadata returns and caches holds
\* influentialCitations and influentialReferences, equal to the lists
\* fetchCitationInfo returned.
C17_MetadataCarriesInfluentialLists ==
    \A c \in Calls :
        (Answered(c) /\ fetch[c].error.msg = "none")
            => /\ "influentialCitations" \in DOMAIN fetch[c].returned
               /\ "influentialReferences" \in DOMAIN fetch[c].returned
               /\ fetch[c].returned.influentialCitations
                      = fetch[c].citationInfo.influentialCitations
               /\ fetch[c].returned.influentialReferences
                      = fetch[c].citationInfo.influentialReferences
               /\ "influentialCitations" \in DOMAIN fetch[c].wrote.json.val
               /\ "influentialReferences" \in DOMAIN fetch[c].wrote.json.val

\* two calls for the same identifier that were in progress together and
\* both wrote the cache
BothWrote(c, d) ==
    /\ c # d
    /\ fetch[c].overlapped
    /\ fetch[d].overlapped
    /\ fetch[c].arxivId = fetch[d].arxivId
    /\ fetch[c].wrote.ty # "undefined"
    /\ fetch[d].wrote.ty # "undefined"

C19_NormalizeIdempotent ==
    (urlStep = 2 /\ isValidArxivUrl(urlIn)) => urlTwice = urlOnce

\* the same for the inputs that hold the path and the suffix once
C19_ExceptRepeatedForms ==
    (/\ urlStep = 2
     /\ isValidArxivUrl(urlIn)
     /\ Cardinality({i \in 1..Len(urlIn) : urlIn[i] = "/pdf"}) <= 1
     /\ Cardinality({i \in 1..Len(urlIn) : urlIn[i] = ".pdf"}) <= 1)
        => urlTwice = urlOnce

\* x holds an http: or https: URL of arxiv.org in abstract or PDF form
HoldsArxivUrl(x) ==
    \E i \in 1..(Len(x) - 5) :
        /\ x[i] \in {"http:", "https:"}
        /\ x[i + 1] = "//"
        /\ x[i + 2] = "arxiv.org"
        /\ x[i + 3] \in {"/abs", "/pdf"}
        /\ x[i + 4] = "/"
        /\ x[i + 5] # ".pdf"

\* x starts with such a URL
StartsWithArxivUrl(x) ==
    /\ Len(x) >= 6
    /\ x[1] \in {"http:", "https:"}
    /\ x[2] = "//"
    /\ x[3] = "arxiv.org"
    /\ x[4] \in {"/abs", "/pdf"}
    /\ x[5] = "/"
    /\ x[6] # ".pdf"

\* C20 as claimed: for any x containing a PDF-form or HTTP-form arXiv URL,
\* isValidArxivUrl(normalizeArxivUrl(x)) is true.
C20_ContainingIsValid ==
    (urlStep >= 1 /\ HoldsArxivUrl(urlIn)) => isValidArxivUrl(urlOnce)

\* C20 as amended: for any x that starts with a lower-case http: or https:
\* URL of arxiv.org in abstract or PDF form with an identifier,
\* isValidArxivUrl(normalizeArxivUrl(x)) is true.
C20_StartingWithIsValid ==
    (urlStep >= 1 /\ StartsWithArxivUrl(urlIn)) => isValidArxivUrl(urlOnce)

C20_Witness ==
    /\ urlStep >= 1
    /\ urlIn = <<"http:", "//", "arxiv.org", "/pdf", "/", "2301.00001", ".pdf">>
    /\ urlOnce = <<"https:", "//", "arxiv.org", "/abs", "/", "2301.00001">>
    /\ isValidArxivUrl(urlOnce)

\* C21: normalizeArxivUrl rewrites a leading http: to https:, rewrites the
\* (first) arxiv.org/pdf to arxiv.org/abs and removes a trailing .pdf; every
\* other part of the input stays as it is.  https://arxiv.org/pdf/2301.00001.pdf
\* becomes https://arxiv.org/abs/2301.00001, and an input in https abstract
\* form is returned unchanged.
C21_NormalizeRewrites ==
    urlStep >= 1
        => LET n == Len(urlIn)
               m == IF n > 0 /\ urlIn[n] = ".pdf" THEN n - 1 ELSE n
               PdfAt(i) == i > 1 /\ urlIn[i] = "/pdf" /\ urlIn[i - 1] = "arxiv.org"
               FirstPdfAt(i) == PdfAt(i) /\ \A j \in 1..(i - 1) : ~PdfAt(j)
           IN /\ Len(urlOnce) = m
              /\ \A i \in 1..m :
                     urlOnce[i] = IF i = 1 /\ urlIn[1] = "http:" THEN "https:"
                                  ELSE IF FirstPdfAt(i) THEN "/abs"
                                  ELSE urlIn[i]
              /\ urlIn = <<"https:", "//", "arxiv.org", "/pdf", "/", "2301.00001", ".pdf">>
                     => urlOnce = <<"https:", "//", "arxiv.org", "/abs", "/", "2301.00001">>
              /\ (/\ n >= 6
                  /\ SubSeq(urlIn, 1, 5) = <<"https:", "//", "arxiv.org", "/abs", "/">>
                  /\ \A i \in 1..n : ~PdfAt(i)
                  /\ urlIn[n] # ".pdf")
                     => urlOnce = urlIn

C21_Witness ==
    /\ urlStep >= 1
    /\ urlIn = <<"https:", "//", "arxiv.org", "/pdf", "/", "2301.00001", ".pdf">>
    /\ urlOnce = <<"https:", "//", "arxiv.org", "/abs", "/", "2301.00001">>

(***************************************************************************)
(* Properties of the clipboard commands.                                    *)
(***************************************************************************)
\* C22: if summarizeArxiv fails in any way (invalid URL, FAILED, ERROR or
\* TIMEOUT), summarizeFromClipboard writes nothing to the active file and
\* shows an error notice; the file is written only after the job has reached
\* CACHED_HIT or COMPLETED.
C22_FailureWritesNothing ==
    host.command = "summarize"
        => /\ host.written # << >>
                  => /\ pc = "done"
                     /\ mstate \in {"CACHED_HIT", "COMPLETED"}
                     /\ Len(host.written) = 1
           /\ (host.pc = "done" /\ mstate \in {"INVALID", "FAILED", "ERROR", "TIMEOUT"})
                  => /\ host.written = << >>
                     /\ Len(host.notices) = 1
                     /\ host.notices[1].kind = "error"
                     /\ ~host.loadingIndicator

C22_Witness ==
    /\ host.command = "summarize"
    /\ host.pc = "done"
    /\ mstate = "TIMEOUT"
    /\ host.written = << >>
    /\ host.notices[1].kind = "error"

\* the papers the citation registry's answer made influential
InfluentialIds(info) ==
    IF "influentialCitations" \in DOMAIN info
    THEN {info.influentialCitations[i].paperId :
              i \in 1..Len(info.influentialCitations)}
         \cup {info.influentialReferences[i].paperId :
                   i \in 1..Len(info.influentialReferences)}
    ELSE {}
NotesOf(paperId) == {i \in 1..Len(host.created) : host.created[i].source = paperId}

\* C23: after a successful metadata insertion for a paper whose citation
\* record holds influential citations or references, each influential paper
\* has been materialized as its own note, and none is the source of more
\* than one created note.
C23_InfluentialPapersMaterialized ==
    (/\ host.command = "metadata"
     /\ host.pc = "done"
     /\ host.frontmatter # [none |-> TRUE]
     /\ host.written # << >>)
        => \A id \in InfluentialIds(fetch["first"].citationInfo) :
               Cardinality(NotesOf(id)) = 1

\* the second half alone
C23_AtMostOneNote ==
    \A id \in InfluentialIds(fetch["first"].citationInfo) :
        Cardinality(NotesOf(id)) <= 1

(***************************************************************************)
(* Requests in flight.                                                      *)
(***************************************************************************)
Settled(r) == IF r = NoResponse THEN 0 ELSE 1
\* a /status answer is followed by a sleep or ends the call
StatusSettled ==
    Len(sleeps) + (IF pc = "done" /\ mstate \in {"COMPLETED", "ERROR"} THEN 1 ELSE 0)
SummarizeInFlight ==
    (nCheck + nService + nStatus)
        - (Settled(preCheckResponse) + Settled(submitResponse) + StatusSettled)
FetchInFlight(c) ==
    (fetch[c].nBib + fetch[c].nCit)
        - (Settled(fetch[c].response) + Settled(fetch[c].citationResponse))

\* C26: within one summarize operation and within one metadata fetch at most
\* one network request is outstanding at any time: a request is issued only
\* after the previous request of the same operation has been answered.
C26_OneRequestAtATime ==
    /\ SummarizeInFlight \in {0, 1}
    /\ SummarizeInFlight = 1 <=> pc \in {"await_check", "await_submit", "await_status"}
    /\ pc = "await_submit" => Settled(preCheckResponse) = 1
    /\ pc = "await_status" => Settled(submitResponse) = 1 /\ StatusSettled = nStatus - 1
    /\ \A c \in Calls :
           /\ FetchInFlight(c) \in {0, 1}
           /\ FetchInFlight(c) = 1 <=> fetch[c].pc \in {"await_bib", "await_cit"}
           /\ fetch[c].pc = "await_cit" => Settled(fetch[c].response) = 1

C26_Witness ==
    /\ pc = "await_status"
    /\ nStatus = 2
    /\ SummarizeInFlight = 1
    /\ fetch["first"].pc = "await_cit"
    /\ FetchInFlight("first") = 1

(***************************************************************************)
(* The cache entry as a snapshot.                                           *)
(***************************************************************************)
\* C27: once the cache holds an entry for an identifier, the entry changes
\* only by the cache write of a call that started before any entry for the
\* identifier existed: never by a call that started afterwards, and never by
\* a caller assigning to the object it was returned.
C27_Step ==
    \A id \in ArxivIds :
        (metadataCache[id] # Undefined /\ metadataCache'[id] # metadataCache[id])
            => \E c \in Calls :
                   /\ fetch[c].pc = "await_cit" /\ fetch'[c].pc = "done"
                   /\ fetch[c].arxivId = id
                   /\ ~fetch[c].afterSuccess
C27_EntryIsASnapshot == [][C27_Step]_allVars

C27_Witness ==
    \E c \in Calls :
        /\ fetch[c].pc = "done"
        /\ fetch[c].afterSuccess
        /\ Get(fetch[c].returned, "title") = Edited
        /\ metadataCache[fetch[c].arxivId] # Undefined
        /\ JSONParse(metadataCache[fetch[c].arxivId]).val # fetch[c].returned

(***************************************************************************)
(* Failures of fetchArxivMetadata.                                          *)
(***************************************************************************)
NoDigitsId(u) ==
    \A i \in 1..Len(u) : u[i] \notin {"2301.00001", "2301.00001v2", "2302.00002"}

\* C28: a call whose normalized URL holds no identifier of the form
\* digits.digits ends, in the step that starts it, with the invalid-identifier
\* error, has issued no request to either registry and leaves the cache as it
\* was; URLs that isValidArxivUrl accepts are among them.
C28_Step ==
    \A c \in Calls :
        (fetch'[c] # fetch[c] /\ fetch'[c].pc # "idle" /\ NoDigitsId(fetch'[c].url))
            => /\ fetch'[c].pc = "done"
               /\ fetch'[c].error.msg = "InvalidUrl"
               /\ fetch'[c].returned = NoMetadata
               /\ fetch'[c].nBib = 0 /\ fetch'[c].nCit = 0
               /\ fetch'[c].wrote = Undefined
               /\ metadataCache' = metadataCache
C28_NoIdentifierNoRequest == [][C28_Step]_allVars

C28_Witness ==
    \E c \in Calls :
        /\ fetch[c].pc = "done"
        /\ NoDigitsId(fetch[c].url)
        /\ isValidArxivUrl(fetch[c].url)
        /\ fetch[c].error.msg = "InvalidUrl"
        /\ \E id \in ArxivIds : metadataCache[id] # Undefined

BibFailed(r) == r # NoResponse /\ ~r.fail /\ (r.status # 200 \/ r.text.entry = Null)

\* C29: when the bibliographic registry answers with a status other than 200
\* or with a body that has no entry element, the call ends with the upstream
\* error, has sent nothing to the citation registry and has written nothing
\* to the cache; and a call for the same identifier that starts later, no
\* call for the identifier having succeeded so far, sends a bibliographic
\* request of its own.
C29_Step ==
    \A c \in Calls :
        /\ (fetch[c].pc = "await_bib" /\ fetch'[c].pc # "await_bib"
                /\ BibFailed(fetch'[c].response))
               => /\ fetch'[c].pc = "done"
                  /\ fetch'[c].error.msg = "MetadataFetchFailed"
                  /\ fetch'[c].returned = NoMetadata
                  /\ fetch'[c].nCit = 0
                  /\ fetch'[c].wrote = Undefined
                  /\ metadataCache' = metadataCache
        /\ (/\ fetch[c].pc \in {"idle", "done"} /\ fetch'[c] # fetch[c]
            /\ fetch'[c].arxivId # ""
            /\ firstResult[fetch'[c].arxivId] = NoMetadata
            /\ \E d \in Calls : /\ fetch[d].pc = "done"
                                /\ fetch[d].arxivId = fetch'[c].arxivId
                                /\ BibFailed(fetch[d].response))
               => fetch'[c].pc = "await_bib" /\ fetch'[c].nBib = 1
C29_UpstreamFailureLeavesNoTrace == [][C29_Step]_allVars

C29_Witness ==
    \E c, d \in Calls :
        /\ c # d
        /\ fetch[d].pc = "done" /\ BibFailed(fetch[d].response)
        /\ fetch[d].error.msg = "MetadataFetchFailed"
        /\ ~fetch[d].overlapped
        /\ fetch[c].pc = "await_bib" /\ fetch[c].nBib = 1
        /\ fetch[c].arxivId = fetch[d].arxivId
        /\ ~fetch[c].overlapped

(***************************************************************************)
(* formatSummary.                                                           *)
(***************************************************************************)
\* what the two replaces of line 173 make of the sample summaries
Unescaped(chars) ==
    CASE chars = <<"a">> -> <<"a">>
      [] chars = <<"a", "BS", "n", "b">> -> <<"a", "NL", "b">>
      [] chars = <<"BS", "Q", "a", "BS", "Q">> -> <<"Q", "a", "Q">>
      [] chars = <<"BS", "BS", "n">> -> <<"BS", "NL">>

\* the text formatSummary is expected to embed
Embedded(result) ==
    IF result.ty = "object" /\ "summary" \in DOMAIN result
           /\ result.summary.ty = "string"
    THEN Plain(Unescaped(result.summary.chars))
    ELSE Encoded(result)

\* the body of a 200 answer whose text decodes to an object
Body(r) ==
    IF r # NoResponse /\ ~r.fail /\ r.status = StatusOk /\ r.text.json.ok
           /\ r.text.json.val.ty = "object"
    THEN r.text.json.val ELSE Undefined

\* the decoded result a body embeds, when it embeds one
HasResult(body) ==
    /\ body.ty = "object"
    /\ "result" \in DOMAIN body
    /\ body.result.ty \in {"string", "null"}
    /\ (body.result.ty = "string" => body.result.json.ok)
ResultOf(body) == IF body.result.ty = "null" THEN Null ELSE body.result.json.val

\* C30: formatSummary never raises.  A job whose last /status answer is
\* COMPLETED with a result that decodes ends COMPLETED, and a job that ends
\* CACHED_HIT or COMPLETED returns a text with the fixed header, the URL and
\* the footer, which embeds the unescaped summary when the result has a
\* string summary and the JSON stringification of the whole result otherwise
\* (no summary, a summary that is no string, a null result).
C30_FormatSummaryTotal ==
    /\ (/\ pc = "done" /\ nStatus > 0
        /\ HasResult(Body(response))
        /\ Body(response).status = Completed)
           => mstate = "COMPLETED" /\ error = NoError
    /\ (pc = "done" /\ mstate = "COMPLETED")
           => /\ HasResult(Body(response))
              /\ returned.header = "## Arxiv summary"
              /\ returned.footer = "AI disclaimer"
              /\ returned.url = Get(Body(response), "url")
              /\ returned.body = Embedded(ResultOf(Body(response)))
    /\ (pc = "done" /\ mstate = "CACHED_HIT")
           => /\ HasResult(Body(preCheckResponse))
              /\ returned.header = "## Arxiv summary"
              /\ returned.footer = "AI disclaimer"
              /\ returned.url = Plain(url)
              /\ returned.body = Embedded(ResultOf(Body(preCheckResponse)))

C30_Witness ==
    /\ pc = "done" /\ mstate = "COMPLETED"
    /\ ResultOf(Body(response)) = Object([summary |-> Number(3)])
    /\ returned.body = Encoded(Object([summary |-> Number(3)]))

C30_WitnessUnescaped ==
    /\ pc = "done" /\ mstate = "CACHED_HIT"
    /\ ResultOf(Body(preCheckResponse)) = Object([summary |-> Plain(<<"a", "BS", "n", "b">>)])
    /\ returned.body = Plain(<<"a", "NL", "b">>)

(***************************************************************************)
(* The source URL of the returned document.                                 *)
(***************************************************************************)
\* C31: whenever summarizeArxiv returns a summary, through CACHED_HIT or
\* through COMPLETED, the URL embedded in the returned document is the
\* normalized URL the job was started with.
C31_EmbedsJobUrl ==
    (entry = "summarizeArxiv" /\ pc = "done" /\ mstate \in {"CACHED_HIT", "COMPLETED"})
        => returned.url = Plain(url)

\* what holds: a hit embeds the job's URL, a polled result embeds the url
\* field of the /status body, whatever it is
C31_EmbedsJobUrlOnHit ==
    /\ (entry = "summarizeArxiv" /\ pc = "done" /\ mstate = "CACHED_HIT")
           => returned.url = Plain(url)
    /\ (entry = "summarizeArxiv" /\ pc = "done" /\ mstate = "COMPLETED")
           => returned.url = Get(Body(response), "url")

(***************************************************************************)
(* insertMetadata without the metaedit plugin.                              *)
(***************************************************************************)
Shown(notice) == \E i \in 1..Len(host.notices) : host.notices[i] = notice

\* C32: when the metaedit plugin is absent, the step in which insertMetadata
\* runs shows the notice saying so and leaves the document as it was: the
\* front matter, the content and the file name are unchanged (and no file is
\* created).
C32_Step ==
    (host.pc = "fetching" /\ host'.metaedit = "absent")
        => /\ \E i \in (Len(host.notices) + 1)..Len(host'.notices) :
                  host'.notices[i] = ErrorNotice("NoMetaedit")
           /\ host'.frontmatter = host.frontmatter
           /\ host'.written = host.written
           /\ host'.fileName = host.fileName
           /\ host'.created = host.created
C32_NoMetaeditNoChange == [][C32_Step]_allVars

C32_Witness ==
    /\ host.pc = "done"
    /\ host.metaedit = "absent"
    /\ Shown(ErrorNotice("NoMetaedit"))
    /\ host.frontmatter = NoCommand.frontmatter
    /\ host.written = << >>
    /\ Truthy(Get(fetch["first"].returned, "title"))

(***************************************************************************)
(* fetchArxivData.                                                          *)
(***************************************************************************)
\* C33: fetchArxivData issues at most maxRetries requests; it returns the
\* body of the first 200 response and issues nothing after it; every delay
\* is 5000 ms and one is taken after each failed attempt but the last; when
\* every attempt fails it raises the error of the last attempt, after
\* exactly maxRetries requests and maxRetries - 1 delays.
C33_FixedRetries ==
    /\ retry.nRequests <= retry.maxRetries
    /\ \A i \in 1..Len(retry.delays) : retry.delays[i] = 5000
    /\ retry.pc = "sleeping" => retry.timer = <<5000>>
    /\ retry.pc = "await"
           => /\ retry.nRequests = retry.nFailed + 1
              /\ Len(retry.delays) = retry.nFailed
    /\ (retry.pc = "done" /\ retry.returned.ty = "string")
           => /\ retry.response.status = 200
              /\ retry.returned = retry.response.text
              /\ retry.nRequests = retry.nFailed + 1
              /\ Len(retry.delays) = retry.nFailed
              /\ retry.error = NoError
    /\ (retry.pc = "done" /\ retry.nFailed = retry.nRequests /\ retry.nRequests > 0)
           => /\ retry.nRequests = retry.maxRetries
              /\ Len(retry.delays) = retry.maxRetries - 1
              /\ retry.returned = Undefined
              /\ retry.error.msg \in {"RequestFailed", "HttpError"}
              /\ retry.error.detail = Number(retry.response.status)
              /\ (retry.error.msg = "RequestFailed")
                     <=> (retry.response.fail \/ retry.response.status >= 400)

C33_Witness ==
    /\ retry.pc = "done"
    /\ retry.maxRetries = 3
    /\ retry.nRequests = 3
    /\ Len(retry.delays) = 2
    /\ retry.error = Err("HttpError", Number(204))

(***************************************************************************)
(* Zero counts in the cache.                                                *)
(***************************************************************************)
\* call d made the first successful fetch for its identifier, the citation
\* registry failing in it, and call c for the same identifier started after
\* that fetch was over and has ended
LaterThanFailedFirst(c, d) ==
    /\ c # d
    /\ fetch[d].pc = "done"
    /\ fetch[d].wrote # Undefined
    /\ fetch[d].returned = firstResult[fetch[d].arxivId]
    /\ CitationFailed(fetch[d].citationResponse)
    /\ fetch[c].pc = "done"
    /\ fetch[c].arxivId = fetch[d].arxivId
    /\ fetch[c].afterSuccess

\* C34 as claimed: when the citation registry failed in the first successful
\* fetch for an identifier, every later fetch for it returns counts 0 and
\* sends nothing to the citation registry.
C34_ZeroCountsForEver ==
    \A c, d \in Calls :
        LaterThanFailedFirst(c, d)
            => /\ fetch[c].nCit = 0
               /\ Get(fetch[c].returned, "numCitedBy") = Zero
               /\ Get(fetch[c].returned, "numCiting") = Zero

\* C34 as amended: such a later fetch sends nothing to either registry and
\* returns the counts the cache held when it started; they are 0 unless a
\* call that overlapped the first one overwrote the entry in between.
C34_CachedCountsAreReturned ==
    \A c, d \in Calls :
        LaterThanFailedFirst(c, d)
            => /\ fetch[c].nBib = 0
               /\ fetch[c].nCit = 0
               /\ fetch[c].error = NoError
               /\ Get(fetch[c].returned, "numCitedBy") = Get(fetch[c].expected, "numCitedBy")
               /\ Get(fetch[c].returned, "numCiting") = Get(fetch[c].expected, "numCiting")
               /\ fetch[c].expected = firstResult[fetch[c].arxivId]
                      => /\ Get(fetch[c].returned, "numCitedBy") = Zero
                         /\ Get(fetch[c].returned, "numCiting") = Zero

C34_Witness ==
    \E c, d \in Calls :
        /\ LaterThanFailedFirst(c, d)
        /\ fetch[c].expected = firstResult[fetch[c].arxivId]
        /\ fetch[c].nCit = 0
        /\ Get(fetch[c].returned, "numCitedBy") = Zero
        /\ metadataCache[fetch[c].arxivId].json.val.numCitedBy = Zero

(***************************************************************************)
(* Concurrent summarizeFromClipboard operations.                            *)
(***************************************************************************)
\* C35: under any interleaving there is at most one loading-indicator
\* element, there is one whenever some operation is between its
\* showLoadingIndicator call and its end, and there is none once no
\* operation is in progress.
C35_IndicatorTracksOperations ==
    /\ dom.elements <= 1
    /\ (\E o \in OpIds : InProgress(o)) => dom.elements = 1
    /\ (\A o \in OpIds : ~InProgress(o)) => dom.elements = 0

\* what holds: never two elements, none at rest, and the field tells
\* whether the element is attached
C35_AtMostOneAndNoneAtRest ==
    /\ dom.elements \in {0, 1}
    /\ dom.loadingIndicator <=> dom.elements = 1
    /\ (\A o \in OpIds : ~InProgress(o)) => dom.elements = 0

Holds(o) == \E i \in 1..Len(note) : <<note[i]>> = ops[o].summary

\* C36: when two operations on the same file have both inserted their
\* summary, the file holds its original content and, appended to it, both
\* summaries: no interleaving loses an update.
C36_BothSummariesKept ==
    \A o, q \in OpIds :
        (o # q /\ ops[o].pc = "inserted" /\ ops[q].pc = "inserted")
            => /\ note[1] = "original"
               /\ Holds(o)
               /\ Holds(q)

\* what holds: the file is what the operation whose vault.modify came last
\* had read, followed by that operation's summary
C36_LastModifyWins ==
    (\E o \in OpIds : ops[o].pc = "inserted")
        => \E o \in OpIds : /\ ops[o].pc = "inserted"
                            /\ note = ops[o].content \o ops[o].summary

(***************************************************************************)
(* The sleeps of pollForResult.                                             *)
(***************************************************************************)
\* C37: pollForResult sleeps after every attempt that neither returns nor
\* raises, the last one included: when the run ends in Timeout it has made
\* maxAttempts requests and maxAttempts sleeps, and the Timeout is raised at
\* the end of a sleep, no request being sent after it.
C37_Step ==
    /\ (pc = "await_status" /\ pc' # "await_status" /\ mstate' \notin {"COMPLETED", "ERROR"})
           => /\ pc' = "sleeping"
              /\ Len(sleeps') = Len(sleeps) + 1
    /\ (mstate # "TIMEOUT" /\ mstate' = "TIMEOUT")
           => /\ Len(sleeps') = maxAttempts'
              /\ nStatus' = maxAttempts'
              /\ maxAttempts' > 0 => /\ pc = "sleeping"
                                     /\ nStatus' = nStatus
                                     /\ sleeps' = sleeps
C37_SleepsAfterLastAttempt == [][C37_Step]_allVars

C37_Witness ==
    /\ pc = "done"
    /\ mstate = "TIMEOUT"
    /\ maxAttempts = 3
    /\ nStatus = 3
    /\ Len(sleeps) = 3

(***************************************************************************)
(* The success notice of fetchMetadataFromClipboard.                        *)
(***************************************************************************)
\* C38: fetchMetadataFromClipboard shows the success notice only in runs in
\* which insertMetadata wrote the metadata into the file; when insertMetadata
\* returned early (no metaedit plugin) or failed inside, no success notice
\* is shown.
C38_SuccessNoticeOnlyAfterWrite ==
    (host.command = "metadata" /\ host.pc = "done"
         /\ Shown(InfoNotice("MetadataInserted")))
        => /\ host.metaedit = "installed"
           /\ host.io \in {"ok", "rename"}
           /\ host.frontmatter # NoCommand.frontmatter
           /\ host.written # << >>

\* what holds: the notice is shown exactly when fetchArxivMetadata returned,
\* whatever insertMetadata did afterwards
C38_SuccessNoticeAfterFetch ==
    (host.command = "metadata" /\ host.pc = "done")
        => (Shown(InfoNotice("MetadataInserted"))
                <=> (fetch["first"].pc = "done" /\ fetch["first"].error = NoError))

(***************************************************************************)
(* The counts fetchCitationInfo returns.                                    *)
(***************************************************************************)
CountOf(data, f) == IF f \in DOMAIN data THEN data[f] ELSE Zero

\* C39: whenever the citation registry answers 200 with a body that decodes,
\* fetchCitationInfo returns the body's numCitedBy and numCiting (0 for a
\* count that is missing), whatever the citations and references lists look
\* like (a missing list, a flagged paper without authors).
C39_CountsWhateverTheLists ==
    \A c \in Calls :
        (Answered(c) /\ ~CitationFailed(fetch[c].citationResponse))
            => /\ fetch[c].citationInfo.numCitedBy
                   = CountOf(fetch[c].citationResponse.text.json.val, "numCitedBy")
               /\ fetch[c].citationInfo.numCiting
                   = CountOf(fetch[c].citationResponse.text.json.val, "numCiting")

\* what holds: the counts are the body's when both lists are there and
\* every paper has its authors
C39_CountsOfWellFormedBodies ==
    \A c \in Calls :
        (/\ Answered(c)
         /\ ~CitationFailed(fetch[c].citationResponse)
         /\ WellFormed(fetch[c].citationResponse.text.json.val))
            => /\ fetch[c].citationInfo.numCitedBy
                   = CountOf(fetch[c].citationResponse.text.json.val, "numCitedBy")
               /\ fetch[c].citationInfo.numCiting
                   = CountOf(fetch[c].citationResponse.text.json.val, "numCiting")

====
